---- MODULE Spec2Model ----
(***************************************************************************)
(* Model of lighthouse-core/gather/gatherers/seo/font-size.js: the         *)
(* FontSize gatherer (illegible-text detection and font-size cascade       *)
(* resolution).                                                            *)
(*                                                                         *)
(* JavaScript strings are sequences of one-character strings, so that      *)
(* split, trim, parseInt and the selector regular expressions are computed *)
(* character by character.  JavaScript arrays that the code indexes from 0 *)
(* are functions over 0..n-1.                                              *)
(***************************************************************************)
EXTENDS Integers, Sequences, FiniteSets, TLC

VARIABLES
    selector,          \* computeSelectorSpecificity: the selector text scored
    specificity,       \* ... and its score
    baseSelector,      \* the selector before the last token was appended
    baseSpecificity,   \* ... and its score
    lastToken,         \* the token appended last (<<>> when none)
    matched,           \* getEffectiveFontRule: a CSS.getMatchedStylesForNode response
    effective,         \* ... and the rule it resolves to (Pending before the call)
    webPage,              \* the webPage under analysis (what the browser answers)
    pc,                \* where afterPass stands
    listening,         \* whether onStylesheetAdd is registered on the driver
    stylesheets,       \* the Map stylesheets: styleSheetId -> header
    events,            \* CSS.styleSheetAdded events sent so far, each with whether
                       \* onStylesheetAdd was registered when it came
    domains,           \* DOMSnapshot, DOM, CSS: state of the enable/disable command
    commands,          \* the commands sent: counts, and the nodeIds of the fetches
    partialFontData,           \* backendIdsToPartialFontData
    bodyNodes,         \* nodes: positions, in the protocol list, of the nodes in BODY
    pushed,            \* failingNodes as pushed by the triage loop, before the sort
    failingNodes,      \* failingNodes as fetchFailingNodeSourceRules leaves it
    outstanding,       \* analyzed entries whose fetch is in flight
    failedFetches,     \* analyzed entries whose fetch was rejected
    arrivals,          \* analyzed entries in the order their fetches were answered
    totals,            \* totalTextLength, failingTextLength, analyzedFailingTextLength
    error,             \* the error afterPass rejected with (NoError: none)
    artifact,            \* what afterPass returned (NoResult: nothing yet)
    captured,          \* the snapshot the Snapshot Indexer is run on
    indexings          \* the mappings of the indexer's runs on it, in order

specificityVars == <<selector, specificity, baseSelector, baseSpecificity, lastToken>>

resolverVars == <<matched, effective>>

pipelineVars == <<webPage, pc, listening, stylesheets, events, domains, commands, partialFontData,
                  bodyNodes, pushed, failingNodes, outstanding, failedFetches, arrivals,
                  totals, error, artifact>>

indexerVars == <<captured, indexings>>

vars == <<selector, specificity, baseSelector, baseSpecificity, lastToken,
          matched, effective, webPage, pc, listening, stylesheets, events, domains,
          commands, partialFontData, bodyNodes, pushed, failingNodes, outstanding,
          failedFetches, arrivals, totals, error, artifact, captured, indexings>>

----------------------------------------------------------------------------
(* Characters and the character classes of the regular expressions.        *)

LowerCase == {"a", "b", "c", "d", "e", "f", "g", "h", "i", "j", "k", "l", "m",
              "n", "o", "p", "q", "r", "s", "t", "u", "v", "w", "x", "y", "z"}

UpperCase == {"A", "B", "C", "D", "E", "F", "G", "H", "I", "J", "K", "L", "M",
              "N", "O", "P", "Q", "R", "S", "T", "U", "V", "W", "X", "Y", "Z"}

Digit == {"0", "1", "2", "3", "4", "5", "6", "7", "8", "9"}

\* \w of a JavaScript regular expression: what \b tests on either side.
WordChar == LowerCase \cup UpperCase \cup Digit \cup {"_"}

\* [a-z0-9]
LowerAlnum == LowerCase \cup Digit

Min(a, b) == IF a < b THEN a ELSE b

Max(a, b) == IF a > b THEN a ELSE b

\* String.prototype.split(' '): the pieces between single spaces, empty
\* pieces included ("" splits into one empty token).
RECURSIVE SplitFrom(_, _, _)
SplitFrom(s, i, cur) ==
    IF i > Len(s) THEN <<cur>>
    ELSE IF s[i] = " " THEN <<cur>> \o SplitFrom(s, i + 1, <<>>)
    ELSE SplitFrom(s, i + 1, Append(cur, s[i]))

Split(s) == SplitFrom(s, 1, <<>>)

\* token.match(/\b<mark>[a-z0-9]+/g).length for mark "#" or ".": a match
\* starts at every mark that follows a word character (the \b before a
\* non-word character holds only there) and is followed by [a-z0-9];
\* matches consume only [a-z0-9], so no two of them overlap.
MarkMatches(token, mark) ==
    Cardinality({i \in 2..(Len(token) - 1) :
        /\ token[i] = mark
        /\ token[i - 1] \in WordChar
        /\ token[i + 1] \in LowerAlnum})

\* token.match(/^[a-z]+/) ? [1] : []
TypeMatches(token) ==
    IF Len(token) >= 1 /\ token[1] \in LowerCase THEN 1 ELSE 0

\* The loop of computeSelectorSpecificity: numIDs, numClasses and numTypes
\* accumulated over the tokens.
RECURSIVE CountOver(_, _, _)
CountOver(tokens, k, kind) ==
    IF k > Len(tokens) THEN 0
    ELSE (CASE kind = "id" -> MarkMatches(tokens[k], "#")
            [] kind = "class" -> MarkMatches(tokens[k], ".")
            [] OTHER -> TypeMatches(tokens[k]))
         + CountOver(tokens, k + 1, kind)

numIDs(sel) == CountOver(Split(sel), 1, "id")

numClasses(sel) == CountOver(Split(sel), 1, "class")

numTypes(sel) == CountOver(Split(sel), 1, "type")

\* A slip that wraps each count at ten instead of capping it at nine.
computeSelectorSpecificity_wrap(sel) ==
    (numIDs(sel) % 10) * 100 + (numClasses(sel) % 10) * 10 + (numTypes(sel) % 10)

\* A slip that forgets the caps.
computeSelectorSpecificity_nocap(sel) ==
    numIDs(sel) * 100 + numClasses(sel) * 10 + numTypes(sel)

computeSelectorSpecificity(sel) ==
    Min(9, numIDs(sel)) * 100 + Min(9, numClasses(sel)) * 10 + Min(9, numTypes(sel))

----------------------------------------------------------------------------
(* The Cascade Resolver: hasFontSizeDeclaration, findMostSpecificMatched-  *)
(* CSSRule, findInheritedCSSRule and getEffectiveFontRule.                 *)
(*                                                                         *)
(* A CSSStyle is [cssProperties, range, styleSheetId]; a CSSRule is        *)
(* [style, origin, selectorList]; a RuleMatch is [rule, matchingSelectors] *)
(* with matchingSelectors the 0-based indices the protocol gives; an       *)
(* InheritedStyleEntry is [inlineStyle, matchedCSSRules].                  *)

FONT_SIZE_PROPERTY_NAME == "font-size"

\* An optional style that is absent (undefined).
NoStyle == [absent |-> TRUE]

\* The value of an expression that yields undefined where a rule is expected.
Undefined == [type |-> "undefined"]

\* Math.max() of no arguments, and the initial maxSpecificity: -Infinity,
\* below every score (scores are >= 0).
NegInfinity == -1

\* A slip that takes any present style for one that declares font-size.
hasFontSizeDeclaration_any(style) == style # NoStyle

hasFontSizeDeclaration(style) ==
    /\ style # NoStyle
    /\ \E i \in 1..Len(style.cssProperties) :
           style.cssProperties[i].name = FONT_SIZE_PROPERTY_NAME

\* Math.max(...specificities) over the matching selectors of one RuleMatch.
RECURSIVE MaxSpecificityFrom(_, _)
MaxSpecificityFrom(match, k) ==
    IF k > Len(match.matchingSelectors) THEN NegInfinity
    ELSE Max(computeSelectorSpecificity(
                 match.rule.selectorList.selectors[match.matchingSelectors[k] + 1].text),
             MaxSpecificityFrom(match, k + 1))

RuleSpecificity(match) == MaxSpecificityFrom(match, 1)

\* A slip that lets only a strictly greater specificity take over.
TakesOver_strict(spec, maxSpecificity) == spec > maxSpecificity

\* "Use greater OR EQUAL so that the last rule wins in the event of a tie"
TakesOver(spec, maxSpecificity) == spec >= maxSpecificity

\* A slip that passes over a rule none of whose selectors matches.
RECURSIVE MostSpecificLoop_needsSelector(_, _, _, _)
MostSpecificLoop_needsSelector(matchedCSSRules, k, maxSpecificity, maxSpecificityRule) ==
    IF k > Len(matchedCSSRules) THEN maxSpecificityRule
    ELSE LET match == matchedCSSRules[k]
             spec == RuleSpecificity(match)
         IN  IF /\ hasFontSizeDeclaration(match.rule.style)
                /\ match.matchingSelectors # <<>>
                /\ TakesOver(spec, maxSpecificity)
             THEN MostSpecificLoop_needsSelector(matchedCSSRules, k + 1, spec, match.rule)
             ELSE MostSpecificLoop_needsSelector(matchedCSSRules, k + 1, maxSpecificity,
                                                 maxSpecificityRule)

\* The loop of findMostSpecificMatchedCSSRule from rule k on, carrying
\* maxSpecificity and maxSpecificityRule (Undefined while none is chosen).
RECURSIVE MostSpecificLoop(_, _, _, _)
MostSpecificLoop(matchedCSSRules, k, maxSpecificity, maxSpecificityRule) ==
    IF k > Len(matchedCSSRules) THEN maxSpecificityRule
    ELSE LET match == matchedCSSRules[k]
             spec == RuleSpecificity(match)
         IN  IF hasFontSizeDeclaration(match.rule.style) /\ TakesOver(spec, maxSpecificity)
             THEN MostSpecificLoop(matchedCSSRules, k + 1, spec, match.rule)
             ELSE MostSpecificLoop(matchedCSSRules, k + 1, maxSpecificity, maxSpecificityRule)

\* {type: 'Regular', ...rule.style, parentRule: {origin, selectors}}
RegularRule(rule) ==
    [type |-> "Regular",
     cssProperties |-> rule.style.cssProperties,
     range |-> rule.style.range,
     styleSheetId |-> rule.style.styleSheetId,
     parentRule |-> [origin |-> rule.origin,
                     selectors |-> rule.selectorList.selectors]]

\* {type: 'Inline', ...inlineStyle}
InlineRule(inlineStyle) ==
    [type |-> "Inline",
     cssProperties |-> inlineStyle.cssProperties,
     range |-> inlineStyle.range,
     styleSheetId |-> inlineStyle.styleSheetId]

findMostSpecificMatchedCSSRule(matchedCSSRules) ==
    LET maxSpecificityRule == MostSpecificLoop(matchedCSSRules, 1, NegInfinity, Undefined)
    IN  IF maxSpecificityRule # Undefined THEN RegularRule(maxSpecificityRule)
        ELSE Undefined

\* A slip that asks an ancestor's matched rules before its inline style.
RECURSIVE InheritedLoop_matchedFirst(_, _)
InheritedLoop_matchedFirst(inheritedEntries, k) ==
    IF k > Len(inheritedEntries) THEN Undefined
    ELSE LET entry == inheritedEntries[k]
             directRule == findMostSpecificMatchedCSSRule(entry.matchedCSSRules)
         IN  IF directRule # Undefined THEN directRule
             ELSE IF hasFontSizeDeclaration(entry.inlineStyle)
             THEN InlineRule(entry.inlineStyle)
             ELSE InheritedLoop_matchedFirst(inheritedEntries, k + 1)

\* The loop of findInheritedCSSRule from entry k on.
RECURSIVE InheritedLoop(_, _)
InheritedLoop(inheritedEntries, k) ==
    IF k > Len(inheritedEntries) THEN Undefined
    ELSE LET entry == inheritedEntries[k]
             directRule == findMostSpecificMatchedCSSRule(entry.matchedCSSRules)
         IN  IF hasFontSizeDeclaration(entry.inlineStyle)
             THEN InlineRule(entry.inlineStyle)
             ELSE IF directRule # Undefined THEN directRule
             ELSE InheritedLoop(inheritedEntries, k + 1)

\* A slip that walks the ancestors from the farthest to the nearest.
RECURSIVE InheritedLoopBack(_, _)
InheritedLoopBack(inheritedEntries, k) ==
    IF k < 1 THEN Undefined
    ELSE LET entry == inheritedEntries[k]
             directRule == findMostSpecificMatchedCSSRule(entry.matchedCSSRules)
         IN  IF hasFontSizeDeclaration(entry.inlineStyle)
             THEN InlineRule(entry.inlineStyle)
             ELSE IF directRule # Undefined THEN directRule
             ELSE InheritedLoopBack(inheritedEntries, k - 1)

findInheritedCSSRule_farthestFirst(inheritedEntries) ==
    InheritedLoopBack(inheritedEntries, Len(inheritedEntries))

\* A slip that looks at the inline styles of the ancestors only.
findInheritedCSSRule_inlineOnly(inheritedEntries) ==
    LET declaring == {k \in 1..Len(inheritedEntries) :
                         hasFontSizeDeclaration(inheritedEntries[k].inlineStyle)}
    IN  IF declaring = {} THEN Undefined
        ELSE InlineRule(inheritedEntries[CHOOSE k \in declaring :
                                             \A o \in declaring : k <= o].inlineStyle)

findInheritedCSSRule(inheritedEntries) == InheritedLoop(inheritedEntries, 1)

\* A slip that consults the matched rules before the inline style.
getEffectiveFontRule_matchedFirst(response) ==
    LET matchedRule == findMostSpecificMatchedCSSRule(response.matchedCSSRules)
    IN  IF matchedRule # Undefined THEN matchedRule
        ELSE IF hasFontSizeDeclaration(response.inlineStyle)
        THEN InlineRule(response.inlineStyle)
        ELSE findInheritedCSSRule(response.inherited)

getEffectiveFontRule(response) ==
    LET matchedRule == findMostSpecificMatchedCSSRule(response.matchedCSSRules)
        inheritedRule == findInheritedCSSRule(response.inherited)
    IN  IF hasFontSizeDeclaration(response.inlineStyle)
        THEN InlineRule(response.inlineStyle)
        ELSE IF matchedRule # Undefined THEN matchedRule
        ELSE IF inheritedRule # Undefined THEN inheritedRule
        ELSE Undefined

----------------------------------------------------------------------------
(* Snapshot Indexer, Tree Reconstructor and triage: the helpers of         *)
(* FontSize.afterPass.                                                     *)

TEXT_NODE_TYPE == 3

MINIMAL_LEGIBLE_FONT_SIZE_PX == 12

MAX_NODES_SOURCE_RULE_FETCHED == 50

\* The string a lookup yields where JavaScript yields undefined: no real
\* string has an element longer than one character.
UndefinedString == <<"undefined">>

\* What indexing an array outside its bounds yields (undefined): an index
\* that no array and no Map holds.
NoIndex == -1

\* node.parentNode of a node whose parentId matches no nodeId (undefined).
NoNode == 0

\* NaN, the result of parseInt on a string that starts with no number:
\* below every integer parseInt yields for the strings of a snapshot.
NaN == -1000000

S_SCRIPT == <<"S", "C", "R", "I", "P", "T">>

S_STYLE == <<"S", "T", "Y", "L", "E">>

S_NOSCRIPT == <<"N", "O", "S", "C", "R", "I", "P", "T">>

TEXT_NODE_BLOCK_LIST == {S_SCRIPT, S_STYLE, S_NOSCRIPT}

\* The white space String.prototype.trim and parseInt strip.
WhiteSpace == {" ", "\n", "\t"}

RECURSIVE TrimStart(_)
TrimStart(s) ==
    IF s # <<>> /\ Head(s) \in WhiteSpace THEN TrimStart(Tail(s)) ELSE s

RECURSIVE TrimEnd(_)
TrimEnd(s) ==
    IF s # <<>> /\ s[Len(s)] \in WhiteSpace THEN TrimEnd(SubSeq(s, 1, Len(s) - 1)) ELSE s

Trim(s) == TrimEnd(TrimStart(s))

getNodeTextLength(nodeValue) ==
    IF nodeValue = UndefinedString \/ nodeValue = <<>> THEN 0 ELSE Len(Trim(nodeValue))

DigitChars == <<"0", "1", "2", "3", "4", "5", "6", "7", "8", "9">>

DigitValue(c) == (CHOOSE d \in 1..10 : DigitChars[d] = c) - 1

RECURSIVE ParseDigits(_, _, _)
ParseDigits(s, i, acc) ==
    IF i <= Len(s) /\ s[i] \in Digit
    THEN ParseDigits(s, i + 1, acc * 10 + DigitValue(s[i]))
    ELSE acc

\* parseInt(str, 10): leading white space, an optional sign, then the
\* longest run of decimal digits; NaN when there is none.
parseInt(str) ==
    LET s == TrimStart(str)
        signed == s # <<>> /\ s[1] \in {"+", "-"}
        first == IF signed THEN 2 ELSE 1
    IN  IF first > Len(s) \/ s[first] \notin Digit THEN NaN
        ELSE IF signed /\ s[1] = "-" THEN 0 - ParseDigits(s, first, 0)
        ELSE ParseDigits(s, first, 0)

\* A function as an explicit table, each value computed once.
Table(f) == f @@ <<>>

\* A JavaScript array with the elements of a sequence: indices from 0.
Arr(seq) == Table([i \in 0..(Len(seq) - 1) |-> seq[i + 1]])

ArrLen(a) == Cardinality(DOMAIN a)

\* a[i], NoIndex standing for undefined outside the array.
At(a, i) == IF i \in DOMAIN a THEN a[i] ELSE NoIndex

\* Map.prototype.set
MapSet(m, k, v) == (k :> v) @@ m

EmptyMap == <<>>

\* const lookup = (index) => snapshot.strings[index]
Lookup(snapshot, index) ==
    IF index \in DOMAIN snapshot.strings THEN snapshot.strings[index] ELSE UndefinedString

\* A slip that takes the first document, whatever its URL.
FindDocument_first(snapshot, url) ==
    IF DOMAIN snapshot.documents = {} THEN NoIndex ELSE 0

\* snapshot.documents.find(doc => lookup(doc.documentURL) === passContext.url):
\* the index of the first such document, NoIndex when there is none.
FindDocument(snapshot, url) ==
    LET hits == {d \in DOMAIN snapshot.documents :
                     Lookup(snapshot, snapshot.documents[d].documentURL) = url}
    IN  IF hits = {} THEN NoIndex
        ELSE CHOOSE d \in hits : \A o \in hits : d <= o

RequiredArrays == {"nodeType", "nodeName", "backendNodeId", "nodeValue", "parentIndex"}

\* The test that throws 'Unexpected response from DOMSnapshot.captureSnapshot.'
UnexpectedResponse(snapshot, d) ==
    \/ d = NoIndex
    \/ ~(RequiredArrays \subseteq DOMAIN snapshot.documents[d].nodes)

\* nodeIndexToStyleIndex: the loop that sets doc.layout.nodeIndex[i] -> i
\* for i = 0, 1, ...; of several sets of one key the last one stays.
nodeIndexToStyleIndex(doc) ==
    LET nodeIndex == doc.layout.nodeIndex
    IN  Table([n \in {nodeIndex[i] : i \in DOMAIN nodeIndex} |->
                  CHOOSE i \in DOMAIN nodeIndex :
                      /\ nodeIndex[i] = n
                      /\ \A o \in DOMAIN nodeIndex : nodeIndex[o] = n => o <= i])

\* A slip that leaves out the test of the text length.
isNonEmptyTextNode_allowsBlank(node) ==
    /\ node.nodeType = TEXT_NODE_TYPE
    /\ node.parentNodeName \notin TEXT_NODE_BLOCK_LIST

isNonEmptyTextNode(node) ==
    /\ node.nodeType = TEXT_NODE_TYPE
    /\ node.parentNodeName \notin TEXT_NODE_BLOCK_LIST
    /\ getNodeTextLength(node.nodeValue) > 0

\* const styleIndex = nodeIndexToStyleIndex.get(...); if (!styleIndex) continue;
\* undefined and 0 are both falsy.
SkipsStyleIndex(styleMap, nodeIdx) ==
    \/ nodeIdx \notin DOMAIN styleMap
    \/ styleMap[nodeIdx] = 0

\* The node the loop looks at in iteration i.
IndexedNode(snapshot, doc, i) ==
    [nodeType |-> doc.nodes.nodeType[i],
     nodeValue |-> Lookup(snapshot, doc.nodes.nodeValue[i]),
     parentNodeName |-> Lookup(snapshot, At(doc.nodes.nodeName, doc.nodes.parentIndex[i]))]

\* Whether iteration i reaches backendIdsToPartialFontData.set (neither
\* continue is taken).
IsIndexed(snapshot, doc, styleMap, i) ==
    /\ isNonEmptyTextNode(IndexedNode(snapshot, doc, i))
    /\ ~SkipsStyleIndex(styleMap, doc.nodes.parentIndex[i])

\* The value iteration i sets.
IndexedFontData(snapshot, doc, styleMap, i) ==
    LET styleIndex == styleMap[doc.nodes.parentIndex[i]]
        parentStyles == doc.layout.styles[styleIndex]
    IN  [fontSize |-> parseInt(Lookup(snapshot, At(parentStyles, 0))),
         textLength |-> getNodeTextLength(IndexedNode(snapshot, doc, i).nodeValue)]

\* A slip that records a text whose parent has no style index with the
\* font size 0.
backendIdsToPartialFontData_zeroForUnstyled(snapshot, doc) ==
    LET styleMap == nodeIndexToStyleIndex(doc)
        indexed == {i \in DOMAIN doc.nodes.nodeType : IsIndexed(snapshot, doc, styleMap, i)}
        unstyled == {i \in DOMAIN doc.nodes.nodeType :
                        /\ isNonEmptyTextNode(IndexedNode(snapshot, doc, i))
                        /\ doc.nodes.parentIndex[i] \notin DOMAIN styleMap}
    IN  Table([b \in {doc.nodes.backendNodeId[i] : i \in indexed \cup unstyled} |->
                  LET i == CHOOSE n \in indexed \cup unstyled :
                               /\ doc.nodes.backendNodeId[n] = b
                               /\ \A o \in indexed \cup unstyled :
                                      doc.nodes.backendNodeId[o] = b => o <= n
                  IN  IF i \in unstyled
                      THEN [fontSize |-> 0,
                            textLength |->
                                getNodeTextLength(IndexedNode(snapshot, doc, i).nodeValue)]
                      ELSE IndexedFontData(snapshot, doc, styleMap, i)])

\* The loop over doc.nodes.nodeType: of several sets of one backendNodeId
\* the last one stays.
backendIdsToPartialFontData(snapshot, doc) ==
    LET styleMap == nodeIndexToStyleIndex(doc)
        indexed == {i \in DOMAIN doc.nodes.nodeType : IsIndexed(snapshot, doc, styleMap, i)}
    IN  Table([b \in {doc.nodes.backendNodeId[i] : i \in indexed} |->
                  IndexedFontData(snapshot, doc, styleMap,
                      CHOOSE i \in indexed :
                          /\ doc.nodes.backendNodeId[i] = b
                          /\ \A o \in indexed : doc.nodes.backendNodeId[o] = b => o <= i)])

\* nodeMap.get(node.parentId) for the node at position pos of the protocol
\* list: the position of the last node with that nodeId, NoNode when none.
parentNode(nodes, pos) ==
    LET hits == {q \in 1..Len(nodes) : nodes[q].nodeId = nodes[pos].parentId}
    IN  IF hits = {} THEN NoNode
        ELSE CHOOSE q \in hits : \A o \in hits : o <= q

\* nodeInBody: "true", "false", or "RangeError" when the recursion never
\* ends (a parent chain longer than the list is a cycle; the call stack
\* overflows).
RECURSIVE nodeInBody(_, _, _)
nodeInBody(nodes, pos, depth) ==
    IF pos = NoNode THEN "false"
    ELSE IF nodes[pos].nodeName = "BODY" THEN "true"
    ELSE IF depth > Len(nodes) THEN "RangeError"
    ELSE nodeInBody(nodes, parentNode(nodes, pos), depth + 1)

\* A slip that leaves the filter out and keeps every node of the list.
getAllNodesFromBody_unfiltered(nodes) == [p \in 1..Len(nodes) |-> p]

\* A slip that keeps BODY and its children only.
getAllNodesFromBody_childrenOnly(nodes) ==
    SelectSeq([p \in 1..Len(nodes) |-> p],
              LAMBDA p : \/ nodes[p].nodeName = "BODY"
                         \/ /\ parentNode(nodes, p) # NoNode
                            /\ nodes[parentNode(nodes, p)].nodeName = "BODY")

\* nodes.filter(nodeInBody): the positions kept, in list order.
getAllNodesFromBody(nodes) ==
    SelectSeq([p \in 1..Len(nodes) |-> p], LAMBDA p : nodeInBody(nodes, p, 1) = "true")

\* Whether nodes.filter(nodeInBody) overflows the stack on some node.
BodyFilterOverflows(nodes) ==
    \E p \in 1..Len(nodes) : nodeInBody(nodes, p, 1) = "RangeError"

\* A slip that counts a font size equal to the threshold as illegible.
IsIllegible_orEqual(fontSize) ==
    fontSize # NaN /\ fontSize <= MINIMAL_LEGIBLE_FONT_SIZE_PX

\* fontSize < MINIMAL_LEGIBLE_FONT_SIZE_PX (false for NaN)
IsIllegible(fontSize) ==
    fontSize # NaN /\ fontSize < MINIMAL_LEGIBLE_FONT_SIZE_PX

\* list[lo].textLength + ... + list[hi].textLength
RECURSIVE SumRange(_, _, _)
SumRange(list, lo, hi) ==
    IF lo > hi THEN 0
    ELSE IF lo = hi THEN list[lo].textLength
    ELSE LET mid == (lo + hi) \div 2
         IN  SumRange(list, lo, mid) + SumRange(list, mid + 1, hi)

\* analyzedFailingNodesData.reduce((sum, {textLength}) => sum += textLength, 0)
SumTextLength(list, n) == SumRange(list, 1, n)

\* The entry the triage loop pushes for the body node at position pos.
FailingEntry(nodes, partial, pos) ==
    [node |-> parentNode(nodes, pos),
     textLength |-> partial[nodes[pos].backendNodeId].textLength,
     fontSize |-> partial[nodes[pos].backendNodeId].fontSize,
     cssRule |-> Undefined]

\* The loop over the body nodes: a node without partial font data is
\* skipped; the others add to totalTextLength, and those below the
\* threshold are pushed and add to failingTextLength.
Triage(nodes, body, partial) ==
    LET counted == SelectSeq(body, LAMBDA pos : nodes[pos].backendNodeId \in DOMAIN partial)
        failing == SelectSeq(counted,
                       LAMBDA pos : IsIllegible(partial[nodes[pos].backendNodeId].fontSize))
        entries == Table([k \in 1..Len(failing) |->
                             FailingEntry(nodes, partial, failing[k])])
    IN  [failingNodes |-> entries,
         totalTextLength |->
             SumTextLength([k \in 1..Len(counted) |->
                               partial[nodes[counted[k]].backendNodeId]], Len(counted)),
         failingTextLength |-> SumTextLength(entries, Len(entries))]

\* A slip that puts the later of two equally long texts first.
SortsBefore_latestFirst(list, j, k) ==
    \/ list[k].textLength - list[j].textLength < 0
    \/ list[k].textLength - list[j].textLength = 0 /\ j > k

\* Array.prototype.sort with (a, b) => b.textLength - a.textLength, a
\* stable sort (ECMAScript 2019): list[j] ends before list[k] when the
\* comparator puts it first, or puts neither first and j < k.
SortsBefore(list, j, k) ==
    \/ list[k].textLength - list[j].textLength < 0
    \/ list[k].textLength - list[j].textLength = 0 /\ j < k

\* The place list[k] takes in the sorted array, for every k.
SortedPlaces(list) ==
    Table([k \in 1..Len(list) |->
              1 + Cardinality({j \in 1..Len(list) : SortsBefore(list, j, k)})])

Arranged(list, place) ==
    Table([r \in 1..Len(list) |-> list[CHOOSE k \in 1..Len(list) : place[k] = r]])

SortByTextLength(list) == Arranged(list, SortedPlaces(list))

\* A slip that leaves out the slice.
AnalyzedCount_all(failing) == Len(failing)

\* .slice(0, MAX_NODES_SOURCE_RULE_FETCHED): how many entries are analyzed.
AnalyzedCount(failing) == Min(MAX_NODES_SOURCE_RULE_FETCHED, Len(failing))

\* sourceRule.parentRule && {...} of a rule without parentRule.
NoParentRule == [absent |-> TRUE]

\* What fetchSourceRule returns for a response.
fetchSourceRule(response) ==
    LET sourceRule == getEffectiveFontRule(response)
    IN  IF sourceRule = Undefined THEN Undefined
        ELSE [type |-> sourceRule.type,
              range |-> sourceRule.range,
              styleSheetId |-> sourceRule.styleSheetId,
              parentRule |->
                  IF "parentRule" \in DOMAIN sourceRule
                  THEN [origin |-> sourceRule.parentRule.origin,
                        selectors |-> sourceRule.parentRule.selectors]
                  ELSE NoParentRule]

----------------------------------------------------------------------------
(* The state of the gatherer before afterPass is called.                   *)

\* The three protocol domains afterPass enables and disables.
Domains == {"DOMSnapshot", "DOM", "CSS"}

NoResult == [absent |-> TRUE]

NoError == "none"

NoHeader == [absent |-> TRUE]

IdlePipeline ==
    /\ pc = "idle"
    /\ listening = FALSE
    /\ stylesheets = EmptyMap
    /\ events = <<>>
    /\ domains = [d \in Domains |-> "idle"]
    /\ commands = [captureSnapshot |-> 0, getNodesInDocument |-> 0, getMatchedStyles |-> <<>>]
    /\ partialFontData = EmptyMap
    /\ bodyNodes = <<>>
    /\ pushed = <<>>
    /\ failingNodes = <<>>
    /\ outstanding = {}
    /\ failedFetches = {}
    /\ arrivals = <<>>
    /\ totals = [totalTextLength |-> 0, failingTextLength |-> 0,
                 analyzedFailingTextLength |-> 0]
    /\ error = NoError
    /\ artifact = NoResult

\* No snapshot has been handed to the Snapshot Indexer.
NoSnapshot == [strings |-> <<>>, documents |-> <<>>]

IdleIndexer ==
    /\ captured = NoSnapshot
    /\ indexings = <<>>

----------------------------------------------------------------------------
(* Specification of the Cascade Resolver alone: a response of              *)
(* CSS.getMatchedStylesForNode is drawn and getEffectiveFontRule resolves  *)
(* it.                                                                     *)

MaxMatched == 3

MaxInherited == 2

\* The result slot before getEffectiveFontRule has run.
Pending == [type |-> "pending"]

\* The response slot of a run that resolves nothing.
IdleResponse == [inlineStyle |-> NoStyle, matchedCSSRules |-> <<>>, inherited |-> <<>>]

DeclaringProperties == <<[name |-> "color"], [name |-> FONT_SIZE_PROPERTY_NAME]>>

OtherProperties == <<[name |-> "color"]>>

\* Each style of the menus below has a range of its own, so that a result
\* names the style it was built from.
Style(cssProperties, range, styleSheetId) ==
    [cssProperties |-> cssProperties, range |-> range, styleSheetId |-> styleSheetId]

Rule(style, origin, texts) ==
    [style |-> style, origin |-> origin,
     selectorList |-> [selectors |-> [i \in 1..Len(texts) |-> [text |-> texts[i]]]]]

RuleMatch(rule, matchingSelectors) ==
    [rule |-> rule, matchingSelectors |-> matchingSelectors]

T_div == <<"d", "i", "v">>

T_body == <<"b", "o", "d", "y">>

T_ab == <<".", "a", ".", "b">>

T_cd == <<".", "c", ".", "d">>

T_pid == <<"p", "#", "i", "d">>

T_hashid == <<"#", "i", "d">>

\* Directly matched rules: div; .a.b; a list whose best matching selector
\* ties with .a.b; an id rule that declares no font-size; a user-agent rule
\* with no matching selector; a rule whose id selector does not match; #id.
\* M_unmatchedToo is a second rule with no matching selector.
M_div ==
    RuleMatch(Rule(Style(DeclaringProperties, 1, "sheet1"), "regular", <<T_div>>), <<0>>)

M_ab ==
    RuleMatch(Rule(Style(DeclaringProperties, 2, "sheet1"), "regular", <<T_ab>>), <<0>>)

M_divcd ==
    RuleMatch(Rule(Style(DeclaringProperties, 3, "sheet2"), "regular", <<T_div, T_cd>>), <<0, 1>>)

M_other ==
    RuleMatch(Rule(Style(OtherProperties, 4, "sheet1"), "regular", <<T_pid>>), <<0>>)

M_unmatched ==
    RuleMatch(Rule(Style(DeclaringProperties, 5, ""), "user-agent", <<T_hashid, T_div>>), <<>>)

M_divOnly ==
    RuleMatch(Rule(Style(DeclaringProperties, 6, "sheet2"), "regular", <<T_div, T_pid>>), <<0>>)

M_hashid ==
    RuleMatch(Rule(Style(DeclaringProperties, 7, "sheet2"), "regular", <<T_hashid>>), <<0>>)

M_unmatchedToo ==
    RuleMatch(Rule(Style(DeclaringProperties, 8, "sheet1"), "regular", <<T_ab>>), <<>>)

MatchedMenu == {M_div, M_ab, M_divcd, M_other, M_unmatched, M_divOnly, M_hashid}

I_other == Style(OtherProperties, 10, "")

I_declaring == Style(DeclaringProperties, 11, "")

InlineMenu == {NoStyle, I_other, I_declaring}

\* Ancestors: inline declaration only; a matched declaration only; no
\* declaration at all; inline and matched both; two tied matched rules.
\* E_ranked has a matched rule of higher specificity before one of lower.
E_inline == [inlineStyle |-> Style(DeclaringProperties, 21, ""), matchedCSSRules |-> <<>>]

E_matched ==
    [inlineStyle |-> NoStyle,
     matchedCSSRules |->
         <<RuleMatch(Rule(Style(DeclaringProperties, 22, "sheet1"), "regular", <<T_body>>), <<0>>)>>]

E_none ==
    [inlineStyle |-> Style(OtherProperties, 23, ""),
     matchedCSSRules |->
         <<RuleMatch(Rule(Style(OtherProperties, 24, "sheet1"), "regular", <<T_pid>>), <<0>>)>>]

E_both ==
    [inlineStyle |-> Style(DeclaringProperties, 25, ""),
     matchedCSSRules |->
         <<RuleMatch(Rule(Style(DeclaringProperties, 26, "sheet2"), "regular", <<T_pid>>), <<0>>)>>]

E_tie ==
    [inlineStyle |-> NoStyle,
     matchedCSSRules |->
         <<RuleMatch(Rule(Style(DeclaringProperties, 27, "sheet1"), "regular", <<T_ab>>), <<0>>),
           RuleMatch(Rule(Style(DeclaringProperties, 28, "sheet1"), "regular", <<T_cd>>), <<0>>)>>]

E_ranked ==
    [inlineStyle |-> NoStyle,
     matchedCSSRules |->
         <<RuleMatch(Rule(Style(DeclaringProperties, 29, "sheet1"), "regular", <<T_pid>>), <<0>>),
           RuleMatch(Rule(Style(DeclaringProperties, 30, "sheet1"), "regular", <<T_div>>), <<0>>)>>]

InheritedMenu == {E_inline, E_matched, E_none, E_both, E_tie}

\* The lists of at most n different members of S.
ListsOver(S, n) ==
    UNION { {s \in [1..k -> S] : \A i, j \in 1..k : i # j => s[i] # s[j]} : k \in 0..n }

\* Further responses: rules without matching selector alone, in both
\* orders and beside a matching rule; an ancestor with ranked rules alone,
\* behind a non-declaring ancestor and before a declaring one.
ExtraResponses ==
    {[inlineStyle |-> NoStyle, matchedCSSRules |-> m, inherited |-> h] :
        m \in {<<M_unmatchedToo>>, <<M_unmatchedToo, M_unmatched>>,
               <<M_unmatched, M_unmatchedToo>>, <<M_div, M_unmatchedToo>>,
               <<M_unmatchedToo, M_div>>},
        h \in {<<>>, <<E_inline>>}}
    \cup
    {[inlineStyle |-> NoStyle, matchedCSSRules |-> m, inherited |-> h] :
        m \in {<<>>, <<M_other>>},
        h \in {<<E_ranked>>, <<E_none, E_ranked>>, <<E_ranked, E_inline>>}}

\* The response drawn: an inline style, matched rules and ancestors of the
\* menus, or one of the further responses.
InitResolver ==
    /\ \/ \E i \in InlineMenu :
          \E m \in ListsOver(MatchedMenu, MaxMatched) :
          \E h \in ListsOver(InheritedMenu, MaxInherited) :
              matched = [inlineStyle |-> i, matchedCSSRules |-> m, inherited |-> h]
       \/ matched \in ExtraResponses
    /\ effective = Pending
    /\ selector = <<>>
    /\ specificity = 0
    /\ baseSelector = <<>>
    /\ baseSpecificity = 0
    /\ lastToken = <<>>
    /\ webPage = [kinds |-> <<>>, defect |-> "none"]
    /\ IdlePipeline
    /\ IdleIndexer

\* const sourceRule = getEffectiveFontRule(matchedRules)
Resolve ==
    /\ effective = Pending
    /\ effective' = getEffectiveFontRule(matched)
    /\ UNCHANGED <<matched, specificityVars, pipelineVars, indexerVars>>

NextResolver == Resolve

SpecResolver == InitResolver /\ [][NextResolver]_vars

----------------------------------------------------------------------------
(* The pages analysed: what DOMSnapshot.captureSnapshot,                   *)
(* driver.getNodesInDocument and CSS.getMatchedStylesForNode answer for    *)
(* them.  A page is a document with a HEAD and a BODY and one element with *)
(* one text child per entry of page.kinds.                                 *)

MaxParas == 2

MaxBigParas == 51

MaxEvents == 2

MaxAnyOrder == 3

MaxScenarioParas == 80

S_url == <<"h", "t", "t", "p", ":", "/", "/", "a", "/">>

S_frameUrl == <<"h", "t", "t", "p", ":", "/", "/", "b", "/">>

S_document == <<"#", "d", "o", "c", "u", "m", "e", "n", "t">>

S_HTML == <<"H", "T", "M", "L">>

S_HEAD == <<"H", "E", "A", "D">>

S_BODY == <<"B", "O", "D", "Y">>

S_P == <<"P">>

S_text == <<"#", "t", "e", "x", "t">>

F_10px == <<"1", "0", "p", "x">>

F_12px == <<"1", "2", "p", "x">>

F_11_9px == <<"1", "1", ".", "9", "p", "x">>

F_16px == <<"1", "6", "p", "x">>

X_one == <<"x">>

X_two == <<" ", "x", "x", "\n">>

X_three == <<"x", "x", "x">>

X_blank == <<" ", "\n">>

\* snapshot.strings: every string of a snapshot, once.
StringTable ==
    Arr(<<S_url, S_document, S_HTML, S_HEAD, S_BODY, S_P, S_SCRIPT, S_text,
          F_10px, F_12px, F_11_9px, F_16px, X_one, X_two, X_three, X_blank,
          S_frameUrl>>)

StringIndex(s) == CHOOSE i \in DOMAIN StringTable : StringTable[i] = s

\* The nodeName of the protocol form of a node, by snapshot name.
ProtocolName(s) ==
    CASE s = S_document -> "#document"
      [] s = S_HTML -> "HTML"
      [] s = S_HEAD -> "HEAD"
      [] s = S_BODY -> "BODY"
      [] s = S_P -> "P"
      [] s = S_SCRIPT -> "SCRIPT"
      [] OTHER -> "#text"

\* The kinds of element-with-text a page is made of: where the element
\* hangs, its name, whether it has a computed style, its computed
\* font-size and the value of its text child.
Kinds ==
    << [in |-> S_BODY, name |-> S_P, layout |-> TRUE, fontSize |-> F_10px, text |-> X_one],
       [in |-> S_BODY, name |-> S_P, layout |-> TRUE, fontSize |-> F_10px, text |-> X_two],
       [in |-> S_BODY, name |-> S_P, layout |-> TRUE, fontSize |-> F_11_9px, text |-> X_three],
       [in |-> S_BODY, name |-> S_P, layout |-> TRUE, fontSize |-> F_12px, text |-> X_two],
       [in |-> S_BODY, name |-> S_P, layout |-> TRUE, fontSize |-> F_16px, text |-> X_three],
       [in |-> S_HEAD, name |-> S_P, layout |-> TRUE, fontSize |-> F_10px, text |-> X_one],
       [in |-> S_BODY, name |-> S_SCRIPT, layout |-> TRUE, fontSize |-> F_10px, text |-> X_one],
       [in |-> S_BODY, name |-> S_P, layout |-> TRUE, fontSize |-> F_10px, text |-> X_blank],
       [in |-> S_BODY, name |-> S_P, layout |-> FALSE, fontSize |-> F_10px, text |-> X_one] >>

\* Snapshot index of the element of the j-th entry, and of its text child.
ElementIndex(j) == 2 + 2 * j

TextIndex(j) == 3 + 2 * j

\* The flat node at snapshot index i of a page: #document, HTML, HEAD and
\* BODY at 0..3, then element and text of each entry.
FlatNode(page, i) ==
    LET j == (i - 2) \div 2
        kind == Kinds[page.kinds[j]]
    IN  CASE i = 0 -> [nodeType |-> 9, nodeName |-> S_document, nodeValue |-> NoIndex,
                       parentIndex |-> NoIndex, layout |-> FALSE, fontSize |-> F_16px]
          [] i = 1 -> [nodeType |-> 1, nodeName |-> S_HTML, nodeValue |-> NoIndex,
                       parentIndex |-> 0, layout |-> TRUE, fontSize |-> F_16px]
          [] i = 2 -> [nodeType |-> 1, nodeName |-> S_HEAD, nodeValue |-> NoIndex,
                       parentIndex |-> 1, layout |-> FALSE, fontSize |-> F_16px]
          [] i = 3 -> [nodeType |-> 1, nodeName |-> S_BODY, nodeValue |-> NoIndex,
                       parentIndex |-> 1, layout |-> TRUE, fontSize |-> F_16px]
          [] i > 3 /\ i % 2 = 0 ->
                      [nodeType |-> 1, nodeName |-> kind.name, nodeValue |-> NoIndex,
                       parentIndex |-> IF kind.in = S_BODY THEN 3 ELSE 2,
                       layout |-> kind.layout, fontSize |-> kind.fontSize]
          [] OTHER -> [nodeType |-> TEXT_NODE_TYPE, nodeName |-> S_text,
                       nodeValue |-> StringIndex(kind.text),
                       parentIndex |-> i - 1, layout |-> FALSE, fontSize |-> F_16px]

NodeCount(page) == 4 + 2 * Len(page.kinds)

BackendNodeId(i) == 100 + i

NodeId(i) == 1 + i

\* The indices of the nodes with a computed style: in document order, or,
\* on a page of variant "elementsFirst", the elements of the entries before
\* HTML and BODY.
LayoutNodes(page) ==
    LET styled == SelectSeq([k \in 1..NodeCount(page) |-> k - 1],
                            LAMBDA i : FlatNode(page, i).layout)
    IN  IF page.defect = "elementsFirst"
        THEN SelectSeq(styled, LAMBDA i : i > 3) \o SelectSeq(styled, LAMBDA i : i <= 3)
        ELSE styled

\* The document of the page in the snapshot.  A page whose defect names one
\* of the required arrays comes without that array.
MainDocument(page) ==
    LET n == NodeCount(page)
        all == [nodeType |-> Table([i \in 0..(n - 1) |-> FlatNode(page, i).nodeType]),
                nodeName |-> Table([i \in 0..(n - 1) |-> StringIndex(FlatNode(page, i).nodeName)]),
                backendNodeId |-> Table([i \in 0..(n - 1) |-> BackendNodeId(i)]),
                nodeValue |-> Table([i \in 0..(n - 1) |-> FlatNode(page, i).nodeValue]),
                parentIndex |-> Table([i \in 0..(n - 1) |-> FlatNode(page, i).parentIndex])]
        styled == LayoutNodes(page)
    IN  [documentURL |-> StringIndex(S_url),
         nodes |-> IF page.defect \in RequiredArrays
                   THEN [f \in RequiredArrays \ {page.defect} |-> all[f]]
                   ELSE all,
         layout |-> [nodeIndex |-> Arr(styled),
                     styles |-> Table([k \in 0..(Len(styled) - 1) |->
                         Arr(<<StringIndex(FlatNode(page, styled[k + 1]).fontSize)>>)])]]

\* The document of a frame of another URL, listed first.
FrameDocument ==
    [documentURL |-> StringIndex(S_frameUrl),
     nodes |-> [f \in RequiredArrays |-> Arr(<<>>)],
     layout |-> [nodeIndex |-> Arr(<<>>), styles |-> Arr(<<>>)]]

\* The response of DOMSnapshot.captureSnapshot.  A page with defect "url"
\* has no document of the audited URL.
PageSnapshot(page) ==
    [strings |-> StringTable,
     documents |-> IF page.defect = "url" THEN Arr(<<FrameDocument>>)
                   ELSE Arr(<<FrameDocument, MainDocument(page)>>)]

\* A parentId that is the nodeId of no node of the list.
NoSuchNodeId == 999

\* The parentId of the k-th node of the list.  In the list of a page of
\* variant "orphan" the element of the first entry names a parent that is
\* not in the list, of variant "selfParent" itself, and of variant "cycle"
\* its own text child.
PageParentId(page, k) ==
    IF k = 1 THEN NoNode
    ELSE IF k = ElementIndex(1) + 1 /\ page.defect = "orphan" THEN NoSuchNodeId
    ELSE IF k = ElementIndex(1) + 1 /\ page.defect = "selfParent" THEN NodeId(ElementIndex(1))
    ELSE IF k = ElementIndex(1) + 1 /\ page.defect = "cycle" THEN NodeId(TextIndex(1))
    ELSE NodeId(FlatNode(page, k - 1).parentIndex)

\* The k-th node of the response of driver.getNodesInDocument.
PageNode(page, k) ==
    [nodeId |-> NodeId(k - 1),
     parentId |-> PageParentId(page, k),
     backendNodeId |-> BackendNodeId(k - 1),
     nodeName |-> ProtocolName(FlatNode(page, k - 1).nodeName)]

\* The response of driver.getNodesInDocument: the nodes in document order.
PageNodes(page) == Table([k \in 1..NodeCount(page) |-> PageNode(page, k)])

\* The responses CSS.getMatchedStylesForNode gives on the pages.
CannedResponses ==
    << IdleResponse,
       [inlineStyle |-> I_declaring, matchedCSSRules |-> <<M_hashid>>, inherited |-> <<E_inline>>],
       [inlineStyle |-> NoStyle, matchedCSSRules |-> <<M_div, M_ab>>, inherited |-> <<>>],
       [inlineStyle |-> I_other, matchedCSSRules |-> <<M_other>>, inherited |-> <<E_none>>],
       [inlineStyle |-> NoStyle, matchedCSSRules |-> <<>>, inherited |-> <<E_none, E_inline>>],
       [inlineStyle |-> I_other, matchedCSSRules |-> <<M_other>>, inherited |-> <<E_matched, E_both>>],
       [inlineStyle |-> NoStyle, matchedCSSRules |-> <<M_ab, M_divcd>>, inherited |-> <<E_tie>>],
       [inlineStyle |-> NoStyle, matchedCSSRules |-> <<M_unmatched>>, inherited |-> <<>>],
       [inlineStyle |-> NoStyle, matchedCSSRules |-> <<>>, inherited |-> <<E_none, E_matched>>] >>

\* The response for the element with this nodeId: the elements of a page
\* take the responses in turn, starting at a place their kind gives.
PageStyles(page, nodeId) ==
    LET j == (nodeId - 3) \div 2
    IN  IF nodeId >= 5 /\ nodeId % 2 = 1 /\ j <= Len(page.kinds)
        THEN CannedResponses[((page.kinds[j] + j) % Len(CannedResponses)) + 1]
        ELSE IdleResponse

\* The lists of at most n members of S.
SeqsUpTo(S, n) == UNION {[1..k -> S] : k \in 0..n}

\* The kinds the pages of several entries are made of: failing text,
\* failing text with a fractional size, legible text, text outside BODY
\* and text of a SCRIPT.
CoreKinds == {1, 3, 4, 6, 7}

\* Pages of one entry of any kind, and pages of a few entries.
SmallPages ==
    {[kinds |-> ks, defect |-> "none"] :
        ks \in {<<k>> : k \in 1..Len(Kinds)} \cup SeqsUpTo(CoreKinds, MaxParas)}

DefectPages == {[kinds |-> <<1>>, defect |-> d] : d \in {"url"} \cup RequiredArrays}

\* Pages whose protocol node list has a broken parent link.
BrokenLinkPages ==
    {[kinds |-> <<1, 1>>, defect |-> d] : d \in {"orphan", "selfParent", "cycle"}}

\* Pages whose first style entry belongs to the element of the first entry.
ElementsFirstPages ==
    {[kinds |-> ks, defect |-> "elementsFirst"] : ks \in {<<1>>, <<1, 3>>, <<4, 1>>}}

\* Pages with an element that has no computed style beside one that has.
UnstyledPages ==
    {[kinds |-> ks, defect |-> "none"] : ks \in {<<9, 1>>, <<3, 9>>}}

\* Long pages repeat a short pattern of kinds: failing texts of three
\* lengths; failing and legible text in turn.
BigPatterns == {<<2, 1, 3>>, <<1, 4, 3>>}

LargePages ==
    {[kinds |-> [k \in 1..n |-> c[((k - 1) % Len(c)) + 1]], defect |-> "none"] :
        c \in BigPatterns, n \in (MAX_NODES_SOURCE_RULE_FETCHED - 1)..MaxBigParas}

\* The page of the 80-failing-nodes scenario: failing texts of three
\* lengths, and one legible text after them.
ScenarioPages ==
    {[kinds |-> [k \in 1..(MaxScenarioParas + 1) |->
                    IF k > MaxScenarioParas THEN 4 ELSE <<2, 1, 3>>[((k - 1) % 3) + 1]],
      defect |-> "none"]}

\* The browser sends CSS.styleSheetAdded events while pages of at most this
\* many entries are analysed; the long pages are analysed without events.
MaxEventParas == 3

\* CSS.styleSheetAdded events the browser may send.
Headers ==
    {[styleSheetId |-> "sheet1", sourceURL |-> "a.css"],
     [styleSheetId |-> "sheet1", sourceURL |-> "b.css"]}

----------------------------------------------------------------------------
(* FontSize.afterPass as a state machine: one action per stretch of code   *)
(* between two awaits, and one per answer or event of the browser.         *)

Init ==
    /\ webPage \in SmallPages \cup DefectPages \cup BrokenLinkPages \cup ElementsFirstPages
                   \cup UnstyledPages
                   \cup LargePages
                   \cup ScenarioPages
    /\ IdlePipeline
    /\ IdleIndexer
    /\ selector = <<>>
    /\ specificity = 0
    /\ baseSelector = <<>>
    /\ baseSpecificity = 0
    /\ lastToken = <<>>
    /\ matched = IdleResponse
    /\ effective = Pending

\* driver.on('CSS.styleSheetAdded', onStylesheetAdd) and the three enable
\* commands, sent together.
AfterPassStart ==
    /\ pc = "idle"
    /\ pc' = "enabling"
    /\ listening' = TRUE
    /\ domains' = [d \in Domains |-> "enabling"]
    /\ UNCHANGED <<webPage, stylesheets, events, commands, partialFontData, bodyNodes, pushed,
                   failingNodes, outstanding, failedFetches, arrivals, totals, error, artifact>>
    /\ UNCHANGED <<specificityVars, resolverVars, indexerVars>>

\* The browser answers one of the enable commands.
EnableCompletes(d) ==
    /\ pc = "enabling"
    /\ domains[d] = "enabling"
    /\ domains' = [domains EXCEPT ![d] = "enabled"]
    /\ UNCHANGED <<webPage, pc, listening, stylesheets, events, commands, partialFontData, bodyNodes,
                   pushed, failingNodes, outstanding, failedFetches, arrivals, totals, error, artifact>>
    /\ UNCHANGED <<specificityVars, resolverVars, indexerVars>>

\* A slip that sends DOMSnapshot.captureSnapshot as soon as one of the enable
\* commands is answered.
CaptureSnapshot_early ==
    /\ pc = "enabling"
    /\ \E d \in Domains : domains[d] = "enabled"
    /\ pc' = "capturing"
    /\ commands' = [commands EXCEPT !.captureSnapshot = @ + 1]
    /\ UNCHANGED <<webPage, listening, stylesheets, events, domains, partialFontData, bodyNodes,
                   pushed, failingNodes, outstanding, failedFetches, arrivals, totals, error, artifact>>
    /\ UNCHANGED <<specificityVars, resolverVars, indexerVars>>

\* Promise.all of the enable commands resolves; DOMSnapshot.captureSnapshot
\* is sent.
CaptureSnapshot ==
    /\ pc = "enabling"
    /\ \A d \in Domains : domains[d] = "enabled"
    /\ pc' = "capturing"
    /\ commands' = [commands EXCEPT !.captureSnapshot = @ + 1]
    /\ UNCHANGED <<webPage, listening, stylesheets, events, domains, partialFontData, bodyNodes,
                   pushed, failingNodes, outstanding, failedFetches, arrivals, totals, error, artifact>>
    /\ UNCHANGED <<specificityVars, resolverVars, indexerVars>>

\* The snapshot arrives: the document is located and checked, the Snapshot
\* Indexer runs, and driver.getNodesInDocument is called.
SnapshotArrives ==
    /\ pc = "capturing"
    /\ LET snapshot == PageSnapshot(webPage)
           d == FindDocument(snapshot, S_url)
       IN  IF UnexpectedResponse(snapshot, d)
           THEN /\ pc' = "failed"
                /\ error' = "Unexpected response from DOMSnapshot.captureSnapshot."
                /\ UNCHANGED <<partialFontData, commands>>
           ELSE /\ pc' = "listing"
                /\ partialFontData' = backendIdsToPartialFontData(snapshot, snapshot.documents[d])
                /\ commands' = [commands EXCEPT !.getNodesInDocument = @ + 1]
                /\ UNCHANGED error
    /\ UNCHANGED <<webPage, listening, stylesheets, events, domains, bodyNodes, pushed,
                   failingNodes, outstanding, failedFetches, arrivals, totals, artifact>>
    /\ UNCHANGED <<specificityVars, resolverVars, indexerVars>>

\* A slip that sends the command of every entry twice.
SentFetches_twice(nodes, analyzed, issued) ==
    LET order == SelectSeq([k \in 1..Len(analyzed) |-> k], LAMBDA k : k \in issued)
    IN  Table([i \in 1..(2 * Len(order)) |-> nodes[analyzed[order[((i - 1) \div 2) + 1]].node].nodeId])

\* The nodeIds of the CSS.getMatchedStylesForNode commands sent for the
\* analyzed entries, in the order of the entries.
SentFetches(nodes, analyzed, issued) ==
    LET order == SelectSeq([k \in 1..Len(analyzed) |-> k], LAMBDA k : k \in issued)
    IN  Table([i \in 1..Len(order) |-> nodes[analyzed[order[i]].node].nodeId])

\* The node list arrives: the body filter, the triage loop, and the
\* synchronous part of fetchFailingNodeSourceRules (sort, slice, and one
\* CSS.getMatchedStylesForNode per analyzed entry; an entry without node
\* throws before its command is sent).
NodesArrive ==
    /\ pc = "listing"
    /\ IF BodyFilterOverflows(PageNodes(webPage))
       THEN /\ pc' = "failed"
            /\ error' = "RangeError"
            /\ UNCHANGED <<bodyNodes, pushed, failingNodes, outstanding, failedFetches, arrivals,
                           totals, commands>>
       ELSE /\ bodyNodes' = getAllNodesFromBody(PageNodes(webPage))
            /\ pushed' = Triage(PageNodes(webPage), bodyNodes', partialFontData).failingNodes
            /\ totals' = [totals EXCEPT
                   !.totalTextLength =
                       Triage(PageNodes(webPage), bodyNodes', partialFontData).totalTextLength,
                   !.failingTextLength =
                       Triage(PageNodes(webPage), bodyNodes', partialFontData).failingTextLength]
            /\ failingNodes' = SortByTextLength(pushed')
            /\ failedFetches' = {k \in 1..AnalyzedCount(failingNodes') :
                                    failingNodes'[k].node = NoNode}
            /\ outstanding' = (1..AnalyzedCount(failingNodes')) \ failedFetches'
            /\ arrivals' = <<>>
            /\ commands' = [commands EXCEPT !.getMatchedStyles =
                   SentFetches(PageNodes(webPage), failingNodes', outstanding')]
            /\ pc' = IF failedFetches' = {} THEN "fetching" ELSE "failed"
            /\ error' = IF failedFetches' = {} THEN NoError ELSE "TypeError"
    /\ UNCHANGED <<webPage, listening, stylesheets, events, domains, partialFontData, artifact>>
    /\ UNCHANGED <<specificityVars, resolverVars, indexerVars>>

\* The answers of the fetches in flight come in any order while few are
\* in flight; of many, the first issued is answered next.
Deliverable(k) ==
    \/ Cardinality(outstanding) <= MaxAnyOrder
    \/ \A o \in outstanding : k <= o

\* A slip in which the callbacks share the entry they write to: the answer
\* for entry k lands in the first entry still waiting.
FetchResponds_firstOutstanding(k) ==
    /\ pc = "fetching"
    /\ k \in outstanding
    /\ Deliverable(k)
    /\ failingNodes' =
           [failingNodes EXCEPT ![CHOOSE m \in outstanding : \A o \in outstanding : m <= o].cssRule =
               fetchSourceRule(PageStyles(webPage, PageNode(webPage, failingNodes[k].node).nodeId))]
    /\ outstanding' = outstanding \ {k}
    /\ arrivals' = Append(arrivals, k)
    /\ UNCHANGED <<webPage, pc, listening, stylesheets, events, domains, commands, partialFontData,
                   bodyNodes, pushed, failedFetches, totals, error, artifact>>
    /\ UNCHANGED <<specificityVars, resolverVars, indexerVars>>

\* CSS.getMatchedStylesForNode answers for entry k:
\* failingNode.cssRule = await fetchSourceRule(driver, failingNode.node)
FetchResponds(k) ==
    /\ pc = "fetching"
    /\ k \in outstanding
    /\ Deliverable(k)
    /\ failingNodes' = [failingNodes EXCEPT ![k].cssRule =
           fetchSourceRule(PageStyles(webPage, PageNode(webPage, failingNodes[k].node).nodeId))]
    /\ outstanding' = outstanding \ {k}
    /\ arrivals' = Append(arrivals, k)
    /\ UNCHANGED <<webPage, pc, listening, stylesheets, events, domains, commands, partialFontData,
                   bodyNodes, pushed, failedFetches, totals, error, artifact>>
    /\ UNCHANGED <<specificityVars, resolverVars, indexerVars>>

\* CSS.getMatchedStylesForNode fails for entry k: the entry's promise
\* rejects, Promise.all rejects, and with it fetchFailingNodeSourceRules
\* and afterPass.
FetchFails(k) ==
    /\ pc = "fetching"
    /\ k \in outstanding
    /\ Deliverable(k)
    /\ outstanding' = outstanding \ {k}
    /\ failedFetches' = failedFetches \cup {k}
    /\ pc' = "failed"
    /\ error' = "protocol error"
    /\ UNCHANGED <<webPage, listening, stylesheets, events, domains, commands, partialFontData,
                   bodyNodes, pushed, failingNodes, arrivals, totals, artifact>>
    /\ UNCHANGED <<specificityVars, resolverVars, indexerVars>>

\* data.cssRule.stylesheet = stylesheets.get(data.cssRule.styleSheetId) for
\* the entries with a cssRule that has a styleSheetId.
WithStylesheet(entry, sheets) ==
    IF entry.cssRule # Undefined /\ entry.cssRule.styleSheetId # ""
    THEN [entry EXCEPT !.cssRule =
             [type |-> @.type, range |-> @.range, styleSheetId |-> @.styleSheetId,
              parentRule |-> @.parentRule,
              stylesheet |-> IF @.styleSheetId \in DOMAIN sheets
                             THEN sheets[@.styleSheetId] ELSE NoHeader]]
    ELSE entry

\* Promise.all of the fetches resolves: the analyzed text length is summed,
\* the listener is removed, the stylesheet headers are attached and the
\* three disable commands are sent.
Aggregate ==
    /\ pc = "fetching"
    /\ outstanding = {}
    /\ totals' = [totals EXCEPT !.analyzedFailingTextLength =
                      SumTextLength(failingNodes, AnalyzedCount(failingNodes))]
    /\ listening' = FALSE
    /\ failingNodes' = [k \in 1..Len(failingNodes) |->
                           IF k <= AnalyzedCount(failingNodes)
                           THEN WithStylesheet(failingNodes[k], stylesheets)
                           ELSE failingNodes[k]]
    /\ domains' = [d \in Domains |-> "disabling"]
    /\ pc' = "disabling"
    /\ UNCHANGED <<webPage, stylesheets, events, commands, partialFontData, bodyNodes, pushed,
                   outstanding, failedFetches, arrivals, error, artifact>>
    /\ UNCHANGED <<specificityVars, resolverVars, indexerVars>>

\* The browser answers one of the disable commands.
DisableCompletes(d) ==
    /\ pc = "disabling"
    /\ domains[d] = "disabling"
    /\ domains' = [domains EXCEPT ![d] = "disabled"]
    /\ UNCHANGED <<webPage, pc, listening, stylesheets, events, commands, partialFontData, bodyNodes,
                   pushed, failingNodes, outstanding, failedFetches, arrivals, totals, error, artifact>>
    /\ UNCHANGED <<specificityVars, resolverVars, indexerVars>>

\* Promise.all of the disable commands resolves; afterPass returns.
Return ==
    /\ pc = "disabling"
    /\ \A d \in Domains : domains[d] = "disabled"
    /\ pc' = "done"
    /\ artifact' = [analyzedFailingNodesData |->
                      SubSeq(failingNodes, 1, AnalyzedCount(failingNodes)),
                  analyzedFailingTextLength |-> totals.analyzedFailingTextLength,
                  failingTextLength |-> totals.failingTextLength,
                  totalTextLength |-> totals.totalTextLength]
    /\ UNCHANGED <<webPage, listening, stylesheets, events, domains, commands, partialFontData,
                   bodyNodes, pushed, failingNodes, outstanding, failedFetches, arrivals, totals,
                   error>>
    /\ UNCHANGED <<specificityVars, resolverVars, indexerVars>>

\* A slip that keeps the first header seen for a styleSheetId.
StyleSheetAdded_keepsFirst(header) ==
    /\ Len(events) < MaxEvents
    /\ Len(webPage.kinds) <= MaxEventParas
    /\ events' = Append(events, [header |-> header, heard |-> listening])
    /\ stylesheets' = IF listening /\ header.styleSheetId \notin DOMAIN stylesheets
                      THEN MapSet(stylesheets, header.styleSheetId, header)
                      ELSE stylesheets
    /\ UNCHANGED <<webPage, pc, listening, domains, commands, partialFontData, bodyNodes, pushed,
                   failingNodes, outstanding, failedFetches, arrivals, totals, error, artifact>>
    /\ UNCHANGED <<specificityVars, resolverVars, indexerVars>>

\* The browser sends CSS.styleSheetAdded; onStylesheetAdd stores the header
\* while it is registered.
StyleSheetAdded(header) ==
    /\ Len(events) < MaxEvents
    /\ Len(webPage.kinds) <= MaxEventParas
    /\ events' = Append(events, [header |-> header, heard |-> listening])
    /\ stylesheets' = IF listening THEN MapSet(stylesheets, header.styleSheetId, header)
                      ELSE stylesheets
    /\ UNCHANGED <<webPage, pc, listening, domains, commands, partialFontData, bodyNodes, pushed,
                   failingNodes, outstanding, failedFetches, arrivals, totals, error, artifact>>
    /\ UNCHANGED <<specificityVars, resolverVars, indexerVars>>

Next ==
    \/ AfterPassStart
    \/ \E d \in Domains : EnableCompletes(d)
    \/ CaptureSnapshot
    \/ SnapshotArrives
    \/ NodesArrive
    \/ \E k \in outstanding : FetchResponds(k)
    \/ \E k \in outstanding : FetchFails(k)
    \/ Aggregate
    \/ \E d \in Domains : DisableCompletes(d)
    \/ Return
    \/ \E header \in Headers : StyleSheetAdded(header)

Spec == Init /\ [][Next]_vars

----------------------------------------------------------------------------
(* Specification of computeSelectorSpecificity alone: a selector text is   *)
(* drawn, scored, and extended token by token.                             *)

MaxInitLen == 1

MaxTokens == 3

\* One representative of each character class the regular expressions tell
\* apart: lower-case letter, letter outside [a-z0-9], the two marks, the
\* token separator, and a non-word combinator.
SelectorAlphabet == {"a", "A", "#", ".", " ", ">"}

RECURSIVE StringsUpTo(_)
StringsUpTo(n) ==
    IF n = 0 THEN {<<>>}
    ELSE LET shorter == StringsUpTo(n - 1)
         IN  shorter \cup {Append(s, c) : s \in {t \in shorter : Len(t) = n - 1},
                                          c \in SelectorAlphabet}

InitSelectors == StringsUpTo(MaxInitLen)

\* Tokens that hold an id (#name): leading, after a type, after an
\* upper-case type, several in one compound.
IdTokens == { <<"#", "a">>,
              <<"a", "#", "a">>,
              <<"A", "#", "a", "#", "a", "#", "a", "#", "a">> }

OtherTokens == { <<"a">>,
                 <<".", "a">>,
                 <<"a", ".", "a">>,
                 <<"A", ".", "a", ".", "a", ".", "a", ".", "a", ".", "a">> }

Tokens == IdTokens \cup OtherTokens

InitSpecificity ==
    /\ selector \in InitSelectors
    /\ specificity = computeSelectorSpecificity(selector)
    /\ baseSelector = selector
    /\ baseSpecificity = specificity
    /\ lastToken = <<>>
    /\ matched = IdleResponse
    /\ effective = Pending
    /\ webPage = [kinds |-> <<>>, defect |-> "none"]
    /\ IdlePipeline
    /\ IdleIndexer

\* selector + ' ' + token, scored again.
AppendToken(t) ==
    /\ Len(Split(selector)) <= MaxTokens
    /\ baseSelector' = selector
    /\ baseSpecificity' = specificity
    /\ selector' = selector \o <<" ">> \o t
    /\ specificity' = computeSelectorSpecificity(selector')
    /\ lastToken' = t
    /\ UNCHANGED <<resolverVars, pipelineVars, indexerVars>>

NextSpecificity == \E t \in Tokens : AppendToken(t)

SpecSpecificity == InitSpecificity /\ [][NextSpecificity]_vars

----------------------------------------------------------------------------
(* Specification of the Snapshot Indexer alone: the snapshot of a page is  *)
(* indexed, and indexed again.                                             *)

MaxRuns == 2

\* The pages whose snapshot passes the test of lines 284-287.
IndexablePages ==
    SmallPages \cup BrokenLinkPages \cup ElementsFirstPages \cup UnstyledPages
               \cup LargePages \cup ScenarioPages

InitIndexer ==
    /\ webPage \in IndexablePages
    /\ captured = PageSnapshot(webPage)
    /\ indexings = <<>>
    /\ IdlePipeline
    /\ selector = <<>>
    /\ specificity = 0
    /\ baseSelector = <<>>
    /\ baseSpecificity = 0
    /\ lastToken = <<>>
    /\ matched = IdleResponse
    /\ effective = Pending

\* A slip that takes the entries of the layout arrays out as it reads them.
RunIndexer_consuming ==
    /\ Len(indexings) < MaxRuns
    /\ LET d == FindDocument(captured, S_url)
       IN  /\ indexings' = Append(indexings,
                   backendIdsToPartialFontData(captured, captured.documents[d]))
           /\ captured' = [captured EXCEPT !.documents[d].layout =
                               [nodeIndex |-> Arr(<<>>), styles |-> Arr(<<>>)]]
    /\ UNCHANGED <<specificityVars, resolverVars, pipelineVars>>

\* Lines 292-319 on the located document: the inverse index and the mapping
\* are built anew; the snapshot is only read.
RunIndexer ==
    /\ Len(indexings) < MaxRuns
    /\ LET d == FindDocument(captured, S_url)
       IN  indexings' = Append(indexings,
               backendIdsToPartialFontData(captured, captured.documents[d]))
    /\ UNCHANGED captured
    /\ UNCHANGED <<specificityVars, resolverVars, pipelineVars>>

NextIndexer == RunIndexer

SpecIndexer == InitIndexer /\ [][NextIndexer]_vars

----------------------------------------------------------------------------
(* Properties of the Cascade Resolver, checked under SpecResolver.         *)

\* Whether a style is present and lists a font-size property, read off the
\* response itself.
DeclaresFontSize(style) ==
    /\ style # NoStyle
    /\ FONT_SIZE_PROPERTY_NAME \in
           {style.cssProperties[i].name : i \in 1..Len(style.cssProperties)}

Resolved == effective # Pending

DeclaringMatches(matchedCSSRules) ==
    {k \in 1..Len(matchedCSSRules) : DeclaresFontSize(matchedCSSRules[k].rule.style)}

EntryDeclares(entry) ==
    \/ DeclaresFontSize(entry.inlineStyle)
    \/ DeclaringMatches(entry.matchedCSSRules) # {}

\* The result is the Regular rule built from the rule of this match.
IsRegularOf(result, match) ==
    /\ result.type = "Regular"
    /\ result.range = match.rule.style.range
    /\ result.styleSheetId = match.rule.style.styleSheetId
    /\ result.cssProperties = match.rule.style.cssProperties

\* The result is the Inline rule built from this style.
IsInlineOf(result, style) ==
    /\ result.type = "Inline"
    /\ result.range = style.range
    /\ result.styleSheetId = style.styleSheetId
    /\ result.cssProperties = style.cssProperties
    /\ "parentRule" \notin DOMAIN result

\* C3: whenever the element's own inline style declares font-size, the
\* result of getEffectiveFontRule is the Inline rule built from that inline
\* style, whatever the matched rules and the inherited entries hold.
C3_InlineStyleWins ==
    (Resolved /\ DeclaresFontSize(matched.inlineStyle))
        => IsInlineOf(effective, matched.inlineStyle)

\* C3 witness: an inline font-size beside a matched #id rule that declares
\* font-size and an ancestor that declares it too.
C3_Witness ==
    /\ Resolved
    /\ DeclaresFontSize(matched.inlineStyle)
    /\ \E k \in DeclaringMatches(matched.matchedCSSRules) :
           matched.matchedCSSRules[k].rule.selectorList.selectors[1].text = T_hashid
    /\ \E k \in 1..Len(matched.inherited) : EntryDeclares(matched.inherited[k])

\* C4: without an inline font-size, the result is built from a matched
\* rule that declares font-size and whose specificity (the maximum over its
\* matching selectors) no other declaring matched rule exceeds; a rule that
\* does not declare font-size is never the one chosen.
C4_MostSpecificDeclaringRule ==
    (/\ Resolved
     /\ ~DeclaresFontSize(matched.inlineStyle)
     /\ DeclaringMatches(matched.matchedCSSRules) # {})
        => \E k \in DeclaringMatches(matched.matchedCSSRules) :
               /\ IsRegularOf(effective, matched.matchedCSSRules[k])
               /\ \A j \in DeclaringMatches(matched.matchedCSSRules) :
                      RuleSpecificity(matched.matchedCSSRules[j])
                          <= RuleSpecificity(matched.matchedCSSRules[k])

\* C4 witness: two declaring rules of different specificity beside a rule
\* of higher specificity that declares no font-size.
C4_Witness ==
    /\ Resolved
    /\ ~DeclaresFontSize(matched.inlineStyle)
    /\ \E j, k \in DeclaringMatches(matched.matchedCSSRules) :
           /\ RuleSpecificity(matched.matchedCSSRules[j])
                  < RuleSpecificity(matched.matchedCSSRules[k])
           /\ IsRegularOf(effective, matched.matchedCSSRules[k])
           /\ \E n \in 1..Len(matched.matchedCSSRules) :
                  /\ n \notin DeclaringMatches(matched.matchedCSSRules)
                  /\ RuleSpecificity(matched.matchedCSSRules[n])
                         > RuleSpecificity(matched.matchedCSSRules[k])

\* The pairs i < j of declaring matched rules of equal specificity that no
\* declaring rule exceeds.
TopTies(matchedCSSRules) ==
    {p \in DeclaringMatches(matchedCSSRules) \X DeclaringMatches(matchedCSSRules) :
        /\ p[1] < p[2]
        /\ RuleSpecificity(matchedCSSRules[p[1]]) = RuleSpecificity(matchedCSSRules[p[2]])
        /\ \A n \in DeclaringMatches(matchedCSSRules) :
               RuleSpecificity(matchedCSSRules[n]) <= RuleSpecificity(matchedCSSRules[p[2]])}

\* C5: of two declaring matched rules of equal, unexceeded specificity the
\* earlier one is never the result: the result is built from the later one
\* (or from a rule of the same specificity that comes later still).
C5_TieFavoursLaterRule ==
    (Resolved /\ ~DeclaresFontSize(matched.inlineStyle))
        => \A p \in TopTies(matched.matchedCSSRules) :
               /\ ~IsRegularOf(effective, matched.matchedCSSRules[p[1]])
               /\ \E k \in DeclaringMatches(matched.matchedCSSRules) :
                      /\ k >= p[2]
                      /\ RuleSpecificity(matched.matchedCSSRules[k])
                             = RuleSpecificity(matched.matchedCSSRules[p[2]])
                      /\ IsRegularOf(effective, matched.matchedCSSRules[k])

\* C5 witness: a resolved response whose two best declaring rules tie.
C5_Witness ==
    /\ Resolved
    /\ ~DeclaresFontSize(matched.inlineStyle)
    /\ \E p \in TopTies(matched.matchedCSSRules) :
           /\ RuleSpecificity(matched.matchedCSSRules[p[2]]) > 0
           /\ IsRegularOf(effective, matched.matchedCSSRules[p[2]])

\* The nearest inherited entry that declares font-size (0 when none does).
FirstDeclaringEntry(inherited) ==
    IF \E k \in 1..Len(inherited) : EntryDeclares(inherited[k])
    THEN CHOOSE k \in 1..Len(inherited) :
             /\ EntryDeclares(inherited[k])
             /\ \A n \in 1..(k - 1) : ~EntryDeclares(inherited[n])
    ELSE 0

\* C6: when neither the inline style nor a matched rule of the element
\* declares font-size, the result comes from the first inherited entry, in
\* list order, that declares it: from its inline style if that declares
\* font-size, else from one of its declaring matched rules; what farther
\* entries declare does not matter.
C6_NearestAncestorWins ==
    (/\ Resolved
     /\ ~DeclaresFontSize(matched.inlineStyle)
     /\ DeclaringMatches(matched.matchedCSSRules) = {}
     /\ FirstDeclaringEntry(matched.inherited) # 0)
        => LET entry == matched.inherited[FirstDeclaringEntry(matched.inherited)]
           IN  IF DeclaresFontSize(entry.inlineStyle)
               THEN IsInlineOf(effective, entry.inlineStyle)
               ELSE \E k \in DeclaringMatches(entry.matchedCSSRules) :
                        IsRegularOf(effective, entry.matchedCSSRules[k])

\* C6 witness: the nearest ancestor and a farther one both declare
\* font-size, and the element itself declares none.
C6_Witness ==
    /\ Resolved
    /\ ~DeclaresFontSize(matched.inlineStyle)
    /\ DeclaringMatches(matched.matchedCSSRules) = {}
    /\ Len(matched.matchedCSSRules) > 0
    /\ Len(matched.inherited) >= 2
    /\ EntryDeclares(matched.inherited[1])
    /\ EntryDeclares(matched.inherited[2])
    /\ effective # Undefined

----------------------------------------------------------------------------
(* Properties of computeSelectorSpecificity, checked under                 *)
(* SpecSpecificity.                                                        *)

RECURSIVE Repeat(_, _)
Repeat(s, n) == IF n = 0 THEN <<>> ELSE s \o Repeat(s, n - 1)

\* Selectors the drawn one is ranked against: one id; one id and one class;
\* twelve classes; twelve types; eleven classes and eleven types.
ReferenceSelectors ==
    { <<"A", "#", "a">>,
      <<"A", "#", "a", ".", "a">>,
      <<"A">> \o Repeat(<<".", "a">>, 12),
      <<"a">> \o Repeat(<<" ", "a">>, 11),
      <<"a">> \o Repeat(<<".", "a">>, 11) \o Repeat(<<" ", "a">>, 10) }

Capped(n) == Min(9, n)

\* The capped counts and the score of a selector.
Ranking(s) ==
    [ids |-> Capped(numIDs(s)), classes |-> Capped(numClasses(s)),
     score |-> computeSelectorSpecificity(s)]

ReferenceRankings == {Ranking(r) : r \in ReferenceSelectors}

\* a ranks strictly above b by capped id count, or by capped class count at
\* equal capped id counts.
Outranks(a, b) ==
    \/ a.ids > b.ids
    \/ a.ids = b.ids /\ a.classes > b.classes

\* C8: the score lies in 0..999, its hundreds, tens and units are the id,
\* class and type counts of the token scan, each capped at 9 (ten or more
\* ids contribute what nine do), and a selector with a larger capped id
\* count (or, at equal ids, a larger capped class count) always scores
\* strictly higher, however many classes or types the other one has.
C8_CappedWeights ==
    LET own == [ids |-> Capped(numIDs(selector)),
                classes |-> Capped(numClasses(selector)),
                score |-> specificity]
    IN  /\ specificity \in 0..999
        /\ specificity \div 100 = own.ids
        /\ (specificity \div 10) % 10 = own.classes
        /\ specificity % 10 = Capped(numTypes(selector))
        /\ \A r \in ReferenceRankings :
               /\ Outranks(own, r) => own.score > r.score
               /\ Outranks(r, own) => r.score > own.score

\* C8 witness: a selector with more than nine ids, scored.
C8_Witness ==
    /\ numIDs(selector) >= 10
    /\ specificity \div 100 = 9
    /\ \E r \in ReferenceSelectors : numClasses(r) >= 10 /\ numIDs(r) = 0

\* C9: appending an id token as a further space-separated token never
\* lowers the score.
C9_AddingIdTokenMonotonic ==
    lastToken \in IdTokens
        => /\ selector = baseSelector \o <<" ">> \o lastToken
           /\ specificity >= baseSpecificity

\* C9 witness: an id token appended to a selector that the token takes
\* past nine ids.
C9_Witness ==
    /\ lastToken \in IdTokens
    /\ numIDs(baseSelector) <= 9
    /\ numIDs(selector) > 9
    /\ specificity >= baseSpecificity

\* The element itself declares font-size nowhere, so the ancestors decide.
AncestorsDecide ==
    /\ Resolved
    /\ ~DeclaresFontSize(matched.inlineStyle)
    /\ DeclaringMatches(matched.matchedCSSRules) = {}

\* C25: within one inherited entry the ancestor's inline style wins over
\* its matched rules when both declare font-size (the result is Inline);
\* otherwise its declaring matched rules are ranked as direct matches are,
\* by specificity and among equals the later one; an ancestor that declares
\* font-size nowhere is passed over for the next farther one.
C25_AncestorLocalPrecedence ==
    (AncestorsDecide /\ FirstDeclaringEntry(matched.inherited) # 0)
        => LET entry == matched.inherited[FirstDeclaringEntry(matched.inherited)]
               rules == entry.matchedCSSRules
           IN  IF DeclaresFontSize(entry.inlineStyle)
               THEN IsInlineOf(effective, entry.inlineStyle)
               ELSE \E k \in DeclaringMatches(rules) :
                        /\ IsRegularOf(effective, rules[k])
                        /\ \A j \in DeclaringMatches(rules) :
                               \/ RuleSpecificity(rules[j]) < RuleSpecificity(rules[k])
                               \/ RuleSpecificity(rules[j]) = RuleSpecificity(rules[k]) /\ j <= k

\* An ancestor without font-size comes first, then one whose inline style
\* and matched rule both declare it: the result is that inline style.
C25_Witness ==
    /\ AncestorsDecide
    /\ matched.inherited = <<E_none, E_both>>
    /\ IsInlineOf(effective, E_both.inlineStyle)

\* The declaring matched rules none of whose selectors matches.
UnmatchedDeclaring(matchedCSSRules) ==
    {k \in DeclaringMatches(matchedCSSRules) : matchedCSSRules[k].matchingSelectors = <<>>}

\* C27: findMostSpecificMatchedCSSRule returns a rule if and only if some
\* matched rule declares font-size.  A declaring rule with an empty
\* matchingSelectors list has the lowest specificity there is, and is the
\* one returned exactly when no declaring rule of higher specificity comes
\* before it and none of equal or higher specificity after it.
C27_RuleIffSomeMatchDeclares ==
    (Resolved /\ ~DeclaresFontSize(matched.inlineStyle))
        => LET rules == matched.matchedCSSRules
           IN  /\ (\E k \in 1..Len(rules) : IsRegularOf(effective, rules[k]))
                      <=> DeclaringMatches(rules) # {}
               /\ \A k \in UnmatchedDeclaring(rules) :
                      /\ RuleSpecificity(rules[k]) = NegInfinity
                      /\ IsRegularOf(effective, rules[k])
                             <=> \A j \in DeclaringMatches(rules) \ {k} :
                                     /\ j < k
                                     /\ RuleSpecificity(rules[j]) <= RuleSpecificity(rules[k])

\* Two declaring rules without matching selector and nothing else: the
\* later one is the result.
C27_Witness ==
    /\ Resolved
    /\ matched.inlineStyle = NoStyle
    /\ matched.matchedCSSRules = <<M_unmatchedToo, M_unmatched>>
    /\ IsRegularOf(effective, M_unmatched)

\* Every RuleMatch of the response: those of the element and those of its
\* ancestors.
AllMatches(response) ==
    {response.matchedCSSRules[k] : k \in 1..Len(response.matchedCSSRules)}
    \cup UNION {{response.inherited[a].matchedCSSRules[k] :
                    k \in 1..Len(response.inherited[a].matchedCSSRules)} :
                a \in 1..Len(response.inherited)}

\* The selectors of the rule that matched the element, in the order of
\* matchingSelectors.
SelectorsThatMatched(match) ==
    [i \in 1..Len(match.matchingSelectors) |->
        match.rule.selectorList.selectors[match.matchingSelectors[i] + 1]]

\* C24: a Regular result carries the origin of the owning rule, the style's
\* range and styleSheetId, and as selectors those of the rule that matched
\* the element: all of them and no other; an Inline result has type Inline
\* and no parentRule.
C24_RegularCarriesMatchingSelectors ==
    /\ effective.type = "Regular" =>
           \E m \in AllMatches(matched) :
               /\ IsRegularOf(effective, m)
               /\ effective.parentRule.origin = m.rule.origin
               /\ effective.parentRule.selectors = SelectorsThatMatched(m)
    /\ effective.type = "Inline" => "parentRule" \notin DOMAIN effective

\* The number of `<mark>name` in a token, wherever they stand.
NamedMarks(token, mark) ==
    Cardinality({i \in 1..(Len(token) - 1) :
        token[i] = mark /\ token[i + 1] \in LowerAlnum})

RECURSIVE NamedMarksOver(_, _, _)
NamedMarksOver(tokens, k, mark) ==
    IF k > Len(tokens) THEN 0
    ELSE NamedMarks(tokens[k], mark) + NamedMarksOver(tokens, k + 1, mark)

\* C23: every `#name` of a token counts as one id and every `.name` as one
\* class, also at the start of the token (`#main` scores 100, `.a` 10), and
\* a leading lower-case identifier adds 1 per token.
C23_LeadingIdAndClassAreCounted ==
    specificity = Min(9, NamedMarksOver(Split(selector), 1, "#")) * 100
                  + Min(9, NamedMarksOver(Split(selector), 1, ".")) * 10
                  + Min(9, numTypes(selector))

----------------------------------------------------------------------------
(* Claims about afterPass, checked under Spec.                             *)

\* The analyzed entries: the first min(50, n) of the sorted failing nodes.
Analyzed == 1..Min(MAX_NODES_SOURCE_RULE_FETCHED, Len(failingNodes))

\* The analyzed entries whose fetch has been answered.
Answered == Analyzed \ (outstanding \cup failedFetches)

\* The triage loop and fetchFailingNodeSourceRules have run.
Triaged == pc \in {"fetching", "disabling", "done"} \/ failedFetches # {}

\* The response the browser gives for the element of a failing entry.
ResponseFor(entry) == PageStyles(webPage, PageNode(webPage, entry.node).nodeId)

\* C1: a CSS.getMatchedStylesForNode that fails for one analyzed node does
\* not abort the batch: afterPass does not reject, the failed entry stays
\* in the analyzed list without cssRule, and the analysis goes on to the
\* result aggregate.
C1_FailedFetchDoesNotAbort ==
    failedFetches # {} =>
        /\ pc # "failed"
        /\ error = NoError
        /\ \A k \in failedFetches : k \in Analyzed /\ failingNodes[k].cssRule = Undefined

\* The place in pushed of the entry that holds the same element.
PushedIndex(entry) == CHOOSE i \in 1..Len(pushed) : pushed[i].node = entry.node

\* C2: exactly min(50, failingCount) fetches are sent, for the failing nodes
\* of largest textLength in descending order, equal lengths in their
\* original order (each entry precedes its successor in that order); a
\* failing node outside that subset never gets a cssRule and is not in
\* analyzedFailingNodesData.
C2_CappedFetchOfLongestTexts ==
    Triaged =>
        /\ Len(failingNodes) = Len(pushed)
        /\ \A i \in 1..Len(pushed) :
               \E k \in 1..Len(failingNodes) :
                   /\ failingNodes[k].node = pushed[i].node
                   /\ failingNodes[k].textLength = pushed[i].textLength
        /\ \A a \in 1..(Len(failingNodes) - 1) :
               \/ failingNodes[a].textLength > failingNodes[a + 1].textLength
               \/ /\ failingNodes[a].textLength = failingNodes[a + 1].textLength
                  /\ PushedIndex(failingNodes[a]) < PushedIndex(failingNodes[a + 1])
        /\ Len(commands.getMatchedStyles) = Min(50, Len(pushed))
        /\ \A k \in 1..Len(commands.getMatchedStyles) :
               commands.getMatchedStyles[k] = PageNode(webPage, failingNodes[k].node).nodeId
        /\ \A k \in 1..Len(failingNodes) :
               k > 50 => failingNodes[k].cssRule = Undefined
        /\ pc = "done" =>
               /\ Len(artifact.analyzedFailingNodesData) = Min(50, Len(pushed))
               /\ \A k \in 1..Len(artifact.analyzedFailingNodesData) :
                      artifact.analyzedFailingNodesData[k] = failingNodes[k]

\* More than 50 failing nodes, some equally long and some pushed before
\* longer ones; the analysis has returned.
C2_Witness ==
    /\ pc = "done"
    /\ Len(pushed) > 50
    /\ Len(commands.getMatchedStyles) = 50
    /\ Len(artifact.analyzedFailingNodesData) = 50
    /\ \E i, j \in 1..Len(pushed) :
           i < j /\ pushed[i].textLength < pushed[j].textLength
    /\ \E i, j \in 1..50 :
           i < j /\ failingNodes[i].textLength = failingNodes[j].textLength
    /\ failingNodes[51].cssRule = Undefined

\* Whether a response declares font-size anywhere: inline, in a matched
\* rule, or inline or in a matched rule of an inherited entry.
DeclaredAnywhere(response) ==
    \/ DeclaresFontSize(response.inlineStyle)
    \/ DeclaringMatches(response.matchedCSSRules) # {}
    \/ \E e \in 1..Len(response.inherited) : EntryDeclares(response.inherited[e])

\* The text length of the failing nodes, summed over the pushed entries.
RECURSIVE PushedTextLength(_)
PushedTextLength(n) ==
    IF n = 0 THEN 0 ELSE PushedTextLength(n - 1) + pushed[n].textLength

\* C7: an analyzed failing node gets no rule exactly when its response
\* declares font-size nowhere (inline, matched, inherited); the node still
\* counts toward failingTextLength and stays in the analyzed list, without
\* rule provenance.
C7_NoRuleIffNoDeclaration ==
    /\ \A k \in Answered :
           /\ failingNodes[k].cssRule = Undefined
                  <=> ~DeclaredAnywhere(ResponseFor(failingNodes[k]))
           /\ pc = "done" =>
                  /\ k \in 1..Len(artifact.analyzedFailingNodesData)
                  /\ artifact.analyzedFailingNodesData[k].node = failingNodes[k].node
                  /\ ~DeclaredAnywhere(ResponseFor(failingNodes[k]))
                         => artifact.analyzedFailingNodesData[k].cssRule = Undefined
    /\ Triaged => totals.failingTextLength = PushedTextLength(Len(pushed))
    /\ pc = "done" => artifact.failingTextLength = PushedTextLength(Len(pushed))

\* The analysis has returned an entry without rule, whose response has
\* styles (inline, matched and inherited) that declare no font-size, next
\* to an entry with a rule.
C7_Witness ==
    /\ pc = "done"
    /\ \E k \in 1..Len(artifact.analyzedFailingNodesData) :
           /\ artifact.analyzedFailingNodesData[k].cssRule = Undefined
           /\ ResponseFor(failingNodes[k]).inlineStyle # NoStyle
           /\ ResponseFor(failingNodes[k]).matchedCSSRules # <<>>
           /\ ResponseFor(failingNodes[k]).inherited # <<>>
           /\ artifact.failingTextLength >= failingNodes[k].textLength
    /\ \E k \in 1..Len(artifact.analyzedFailingNodesData) :
           artifact.analyzedFailingNodesData[k].cssRule # Undefined

\* Whether the text node of the j-th entry of the page hangs below BODY in
\* the protocol node list.
EntryInBody(j) ==
    /\ Kinds[webPage.kinds[j]].in = S_BODY
    /\ ~(j = 1 /\ webPage.defect = "orphan")

\* ... and is in the mapping of the Snapshot Indexer.
MappedInBody(j) ==
    EntryInBody(j) /\ BackendNodeId(TextIndex(j)) \in DOMAIN partialFontData

FontDataOf(j) == partialFontData[BackendNodeId(TextIndex(j))]

RECURSIVE MappedTextLength(_)
MappedTextLength(n) ==
    IF n = 0 THEN 0
    ELSE MappedTextLength(n - 1) + (IF MappedInBody(n) THEN FontDataOf(n).textLength ELSE 0)

RECURSIVE SortedTextLength(_)
SortedTextLength(n) ==
    IF n = 0 THEN 0 ELSE SortedTextLength(n - 1) + failingNodes[n].textLength

\* fetchFailingNodeSourceRules has resolved.
Aggregated == pc \in {"disabling", "done"}

\* C11: failingTextLength is the sum of textLength over all failing nodes,
\* analyzed or not; analyzedFailingTextLength is the sum over the analyzed
\* entries only, the min(50, n) longest.
C11_FailingAndAnalyzedSums ==
    /\ Triaged => totals.failingTextLength = PushedTextLength(Len(pushed))
    /\ Aggregated =>
           /\ totals.analyzedFailingTextLength =
                  SortedTextLength(IF Len(failingNodes) < 50 THEN Len(failingNodes) ELSE 50)
           /\ \A k \in 1..Len(failingNodes) :
                  k > 50 => failingNodes[k].textLength <= failingNodes[50].textLength
    /\ pc = "done" =>
           /\ artifact.failingTextLength = totals.failingTextLength
           /\ artifact.analyzedFailingTextLength = totals.analyzedFailingTextLength

\* 80 failing nodes: failingTextLength covers all 80 (27 of length 2, 27
\* of length 1, 26 of length 3), analyzedFailingTextLength the 50 longest
\* (26 of length 3, 24 of length 2).
C11_Witness ==
    /\ pc = "done"
    /\ Len(pushed) = 80
    /\ Len(artifact.analyzedFailingNodesData) = 50
    /\ artifact.failingTextLength = 159
    /\ artifact.analyzedFailingTextLength = 126

\* C12: in every returned result analyzedFailingTextLength <=
\* failingTextLength <= totalTextLength, and every recorded textLength (in
\* the indexer's mapping, in the failing nodes, in the result) is an
\* integer >= 1.
C12_OrderedTotalsPositiveLengths ==
    /\ \A b \in DOMAIN partialFontData :
           partialFontData[b].textLength \in Nat /\ partialFontData[b].textLength >= 1
    /\ \A k \in 1..Len(failingNodes) :
           failingNodes[k].textLength \in Nat /\ failingNodes[k].textLength >= 1
    /\ pc = "done" =>
           /\ artifact.analyzedFailingTextLength <= artifact.failingTextLength
           /\ artifact.failingTextLength <= artifact.totalTextLength
           /\ artifact.analyzedFailingTextLength \in Nat
           /\ \A k \in 1..Len(artifact.analyzedFailingNodesData) :
                  /\ artifact.analyzedFailingNodesData[k].textLength \in Nat
                  /\ artifact.analyzedFailingNodesData[k].textLength >= 1

\* A returned result whose three sums differ, with a text of length 1
\* among the failing nodes.
C12_Witness ==
    /\ pc = "done"
    /\ artifact.analyzedFailingTextLength < artifact.failingTextLength
    /\ artifact.failingTextLength < artifact.totalTextLength
    /\ \E k \in 1..Len(failingNodes) : failingNodes[k].textLength = 1

\* The Snapshot Indexer has run.
Indexed == commands.getNodesInDocument = 1

SnapshotIndices == 0..(NodeCount(webPage) - 1)

\* Whether the snapshot node at index i is a qualifying text node: a text
\* node, not a child of SCRIPT, STYLE or NOSCRIPT, with non-empty trimmed
\* text.
QualifyingText(i) ==
    /\ FlatNode(webPage, i).nodeType = 3
    /\ FlatNode(webPage, FlatNode(webPage, i).parentIndex).nodeName
           \notin {S_SCRIPT, S_STYLE, S_NOSCRIPT}
    /\ StringTable[FlatNode(webPage, i).nodeValue] # <<>>
    /\ \E c \in 1..Len(StringTable[FlatNode(webPage, i).nodeValue]) :
           StringTable[FlatNode(webPage, i).nodeValue][c] \notin WhiteSpace

\* C13: the indexer's mapping has an entry for a snapshot node if and only
\* if the node is a qualifying text node: none is left out, no other node
\* is included.
C13_MappingCoversExactlyQualifyingText ==
    Indexed =>
        \A i \in SnapshotIndices :
            BackendNodeId(i) \in DOMAIN partialFontData <=> QualifyingText(i)

\* The place of snapshot node p in layout.nodeIndex (0-based), -1 when the
\* node has no computed style.
StyleEntryOf(p) ==
    IF \E k \in 1..Len(LayoutNodes(webPage)) : LayoutNodes(webPage)[k] = p
    THEN (CHOOSE k \in 1..Len(LayoutNodes(webPage)) : LayoutNodes(webPage)[k] = p) - 1
    ELSE -1

\* The integer a computed font-size string of the pages starts with.
FontSizeNumber(str) ==
    CASE str = F_10px -> 10
      [] str = F_11_9px -> 11
      [] str = F_12px -> 12
      [] str = F_16px -> 16

\* C14: a qualifying text node whose parent is the first entry of
\* layout.nodeIndex is recorded with the font size of layout.styles[0];
\* only a parent absent from layout.nodeIndex makes the indexer skip a
\* qualifying text node.
C14_StyleIndexZeroIsRecorded ==
    Indexed =>
        \A i \in SnapshotIndices :
            QualifyingText(i) /\ StyleEntryOf(FlatNode(webPage, i).parentIndex) >= 0 =>
                /\ BackendNodeId(i) \in DOMAIN partialFontData
                /\ partialFontData[BackendNodeId(i)].fontSize =
                       FontSizeNumber(FlatNode(webPage,
                           LayoutNodes(webPage)[
                               StyleEntryOf(FlatNode(webPage, i).parentIndex) + 1]).fontSize)

\* The position of the node that the parentId of the node at pos names.
LinkedParent(pos) ==
    {q \in 1..NodeCount(webPage) :
        PageNode(webPage, q).nodeId = PageNode(webPage, pos).parentId}

\* The nodes whose inclusive parent chain holds a BODY: the BODY nodes,
\* then, n times over, the nodes whose parent is already in.
RECURSIVE Grown(_, _, _)
Grown(inner, parents, n) ==
    IF n = 0 THEN inner
    ELSE Grown(inner \cup {q \in DOMAIN parents : parents[q] \cap inner # {}}, parents, n - 1)

\* The chains of the pages are at most this long.
MaxChainLength == 3

UnderBody ==
    Grown({q \in 1..NodeCount(webPage) : PageNode(webPage, q).nodeName = "BODY"},
          Table([q \in 1..NodeCount(webPage) |-> LinkedParent(q)]),
          MaxChainLength)

\* C15: getAllNodesFromBody returns, in list order, exactly the nodes whose
\* inclusive parent chain (parentId matched to nodeId) holds a node named
\* BODY: BODY itself is in, nodes whose chain ends before BODY are out.
C15_BodyNodesAreTheBodyChains ==
    [][bodyNodes' # bodyNodes =>
          /\ {bodyNodes'[k] : k \in 1..Len(bodyNodes')} = UnderBody
          /\ \A k \in 1..(Len(bodyNodes') - 1) : bodyNodes'[k] < bodyNodes'[k + 1]]_vars

\* The page with a text in HEAD and a text in BODY: BODY, the second
\* element and its text are kept; HEAD, its element and text are not.
C15_Witness ==
    /\ webPage = [kinds |-> <<6, 1>>, defect |-> "none"]
    /\ bodyNodes = <<4, 7, 8>>

\* C16: the parent-chain walk ends for every node list, also when a
\* parentId names the node itself or the parent links form a cycle without
\* BODY: such a node is answered "not in body", the walk does not run away.
C16_CyclicChainIsNotInBody ==
    /\ error # "RangeError"
    /\ webPage.defect \in {"selfParent", "cycle"} /\ commands.getNodesInDocument = 1
           /\ pc # "listing"
           => /\ pc # "failed"
              /\ \A k \in 1..Len(bodyNodes) :
                     bodyNodes[k] \notin {ElementIndex(1) + 1, TextIndex(1) + 1}

UnexpectedResponseError == "Unexpected response from DOMSnapshot.captureSnapshot."

\* C17: when the snapshot has no document of the audited URL, or the
\* document lacks one of the required arrays, afterPass fails with the
\* 'Unexpected response' error: no result, no request of the node list, no
\* CSS.getMatchedStylesForNode, no second captureSnapshot.
C17_UnexpectedResponseIsFatal ==
    /\ webPage.defect \in {"url"} \cup RequiredArrays
           /\ pc \notin {"idle", "enabling", "capturing"}
           => pc = "failed" /\ error = UnexpectedResponseError
    /\ error = UnexpectedResponseError =>
           /\ pc = "failed"
           /\ webPage.defect \in {"url"} \cup RequiredArrays
           /\ artifact = NoResult
           /\ commands.captureSnapshot = 1
           /\ commands.getNodesInDocument = 0
           /\ commands.getMatchedStyles = <<>>
           /\ partialFontData = <<>> /\ failingNodes = <<>>

\* The snapshot came without the nodeValue array and afterPass has failed.
C17_Witness ==
    /\ webPage.defect = "nodeValue"
    /\ pc = "failed"
    /\ error = UnexpectedResponseError
    /\ commands.captureSnapshot = 1

\* afterPass has ended: it returned or it rejected.
Ended == pc \in {"done", "failed"}

\* C18: on every way afterPass can end (normal return, precondition error,
\* failed command) the CSS.styleSheetAdded listener has been removed: no
\* listener of a finished analysis is still registered.
C18_ListenerRemovedOnEveryEnd ==
    Ended => ~listening

\* C19: the fetches of the capped subset are all issued before any is
\* waited for; the analyzed sum, the listener removal and the disable
\* commands come only after every issued fetch has completed; afterPass
\* never ends while a fetch it issued is outstanding.
C19_AllFetchesIssuedThenAllAwaited ==
    /\ pc = "fetching" => Len(commands.getMatchedStyles) = AnalyzedCount(failingNodes)
    /\ outstanding # {} =>
           /\ listening
           /\ totals.analyzedFailingTextLength = 0
           /\ \A d \in Domains : domains[d] = "enabled"
    /\ Ended => outstanding = {}

\* The entry the analysis returns at place k of analyzedFailingNodesData when
\* every fetch is answered: place k of the descending-textLength order, with
\* the rule resolved from the response for its own node.
ExpectedEntry(sorted, k) ==
    WithStylesheet([sorted[k] EXCEPT !.cssRule = fetchSourceRule(ResponseFor(sorted[k]))],
                   stylesheets)

\* C20: the returned aggregate does not depend on the order in which the
\* fetch responses arrive: each analyzed entry carries the rule resolved from
\* the response for its own node, an entry still waiting for its response is
\* untouched by the responses of others, and analyzedFailingNodesData keeps
\* the descending-textLength order of the selection.
C20_ResultIndependentOfArrivalOrder ==
    /\ pc = "fetching" =>
           \A k \in Analyzed :
               failingNodes[k].cssRule =
                   IF k \in outstanding THEN Undefined
                   ELSE fetchSourceRule(ResponseFor(failingNodes[k]))
    /\ pc = "done" =>
           /\ artifact.analyzedFailingNodesData =
                  [k \in 1..AnalyzedCount(pushed) |->
                      ExpectedEntry(SortByTextLength(pushed), k)]
           /\ artifact.analyzedFailingTextLength =
                  SumTextLength(SortByTextLength(pushed), AnalyzedCount(pushed))

\* afterPass has returned after the answer for the second entry came before
\* the answer for the first, each entry with a rule of its own.
C20_Witness ==
    /\ pc = "done"
    /\ arrivals = <<2, 1>>
    /\ artifact.analyzedFailingNodesData[1].cssRule # Undefined
    /\ artifact.analyzedFailingNodesData[2].cssRule # Undefined
    /\ artifact.analyzedFailingNodesData[1].cssRule # artifact.analyzedFailingNodesData[2].cssRule

\* C21: in one analysis run DOMSnapshot.captureSnapshot is sent at most
\* once, the node list is requested at most once, and
\* CSS.getMatchedStylesForNode is sent at most 50 times: once for each entry
\* of the capped subset, in their order, for no other node and never again.
C21_BoundedCommandVolume ==
    /\ commands.captureSnapshot <= 1
    /\ commands.getNodesInDocument <= 1
    /\ Len(commands.getMatchedStyles) <= MAX_NODES_SOURCE_RULE_FETCHED
    /\ Len(commands.getMatchedStyles) = Cardinality(Analyzed)
    /\ \A k \in Analyzed :
           commands.getMatchedStyles[k] = PageNode(webPage, failingNodes[k].node).nodeId

\* afterPass has returned for a page with more failing texts than the cap:
\* 50 commands were sent, the entries beyond the cap got none.
C21_Witness ==
    /\ pc = "done"
    /\ Len(failingNodes) > MAX_NODES_SOURCE_RULE_FETCHED
    /\ Len(commands.getMatchedStyles) = MAX_NODES_SOURCE_RULE_FETCHED
    /\ commands.captureSnapshot = 1
    /\ commands.getNodesInDocument = 1

UnstyledEntries ==
    {j \in 1..Len(webPage.kinds) :
        ~Kinds[webPage.kinds[j]].layout /\ QualifyingText(TextIndex(j))}

\* C26: a qualifying text node whose parent has no entry in the inverse
\* index is left out of the indexer's mapping: it is not recorded with font
\* size 0, is not among the failing nodes and adds nothing to
\* totalTextLength.
C26_UnstyledParentIsSkipped ==
    UnstyledEntries # {} =>
        /\ \A j \in UnstyledEntries : BackendNodeId(TextIndex(j)) \notin DOMAIN partialFontData
        /\ \A b \in DOMAIN partialFontData : partialFontData[b].fontSize # 0
        /\ \A k \in 1..Len(pushed) :
               \A j \in UnstyledEntries : pushed[k].node # ElementIndex(j) + 1
        /\ Triaged => totals.totalTextLength = MappedTextLength(Len(webPage.kinds))

\* The page of a text under an element without computed style and a failing
\* text of length 1 has been analysed: only the second text was counted.
C26_Witness ==
    /\ webPage.kinds = <<9, 1>>
    /\ pc = "done"
    /\ DOMAIN partialFontData = {BackendNodeId(TextIndex(2))}
    /\ Len(pushed) = 1
    /\ artifact.totalTextLength = 1

\* C28: every failing entry has a defined owning element, the parent (by
\* parentId) of a mapped text node, and that element is inside BODY; no
\* CSS.getMatchedStylesForNode is sent for an undefined node or for a node
\* outside BODY.
C28_FailingEntriesOwnedInBody ==
    [][pushed' # pushed =>
          LET body == UnderBody
          IN  /\ error' # "TypeError"
              /\ \A k \in 1..Len(pushed') :
                     /\ pushed'[k].node # NoNode
                     /\ pushed'[k].node \in body
                     /\ PageNode(webPage, pushed'[k].node + 1).parentId =
                            PageNode(webPage, pushed'[k].node).nodeId
                     /\ PageNode(webPage, pushed'[k].node + 1).backendNodeId
                            \in DOMAIN partialFontData
              /\ \A i \in 1..Len(commands'.getMatchedStyles) :
                     \E q \in body :
                         PageNode(webPage, q).nodeId = commands'.getMatchedStyles[i]]_vars

\* A failing text in HEAD and one in BODY: the only failing entry is owned
\* by the element in BODY, and the only command sent names it.
C28_Witness ==
    /\ webPage = [kinds |-> <<6, 1>>, defect |-> "none"]
    /\ pc = "fetching"
    /\ Len(pushed) = 1
    /\ pushed[1].node = ElementIndex(2) + 1
    /\ commands.getMatchedStyles = <<NodeId(ElementIndex(2))>>

\* C29: the three enable commands have all completed before the snapshot is
\* captured; the disable commands are issued only after every source-rule
\* fetch has completed and the listener has been removed, and a returned
\* run has them all answered; a run that fails with the precondition error
\* issues no disable command, so the domains stay enabled.
C29_EnableBeforeDisableAfter ==
    /\ commands.captureSnapshot >= 1 =>
           \A d \in Domains : domains[d] \notin {"idle", "enabling"}
    /\ (\E d \in Domains : domains[d] \in {"disabling", "disabled"}) =>
           /\ outstanding = {}
           /\ failedFetches = {}
           /\ Len(arrivals) = Len(commands.getMatchedStyles)
           /\ ~listening
    /\ pc = "done" => \A d \in Domains : domains[d] = "disabled"
    /\ error = UnexpectedResponseError => \A d \in Domains : domains[d] = "enabled"

\* The snapshot had no document of the page: afterPass has failed and the
\* three domains are still enabled.
C29_Witness ==
    /\ webPage.defect = "url"
    /\ pc = "failed"
    /\ commands.captureSnapshot = 1
    /\ \A d \in Domains : domains[d] = "enabled"

\* The events for a styleSheetId that came while the listener was
\* registered.
HeardFor(id) ==
    {i \in 1..Len(events) : events[i].heard /\ events[i].header.styleSheetId = id}

\* The header of the most recent of them; NoHeader when there is none.
LastHeard(id) ==
    IF HeardFor(id) = {} THEN NoHeader
    ELSE events[CHOOSE i \in HeardFor(id) : \A o \in HeardFor(id) : o <= i].header

\* C30: in a returned result an analyzed entry has cssRule.stylesheet only
\* if it has a cssRule with a styleSheetId; its value is the header of the
\* most recent CSS.styleSheetAdded event for that id that came between the
\* registration and the removal of the listener, and it is absent when no
\* such event came in that time.
C30_StylesheetOfLastHeardEvent ==
    pc = "done" =>
        \A k \in 1..Len(artifact.analyzedFailingNodesData) :
            LET cssRule == artifact.analyzedFailingNodesData[k].cssRule
            IN  /\ "stylesheet" \in DOMAIN cssRule =>
                       /\ cssRule # Undefined
                       /\ cssRule.styleSheetId # ""
                       /\ cssRule.stylesheet = LastHeard(cssRule.styleSheetId)
                /\ (cssRule # Undefined /\ cssRule.styleSheetId # "") =>
                       "stylesheet" \in DOMAIN cssRule

\* Two events for one styleSheetId came while the listener was registered;
\* the returned entry carries the header of the second.
C30_Witness ==
    /\ pc = "done"
    /\ Len(events) = 2
    /\ events[1].heard /\ events[2].heard
    /\ events[1].header # events[2].header
    /\ \E k \in 1..Len(artifact.analyzedFailingNodesData) :
           LET cssRule == artifact.analyzedFailingNodesData[k].cssRule
           IN  /\ "stylesheet" \in DOMAIN cssRule
               /\ cssRule.stylesheet = events[2].header

====
